---- MODULE Spec2Model ----
(***************************************************************************)
(* Agent job engine (src/agent/jobs/runner.py): the JobRunner's job store, *)
(* queue and worker pool, and the phase executor _execute_job.             *)
(*                                                                         *)
(* asyncio runs one task at a time, so the code between two awaits is one  *)
(* atomic step.  Each action below is one such stretch of code.  Lines of  *)
(* runner.py that are indented four columns too deep (72, 156, 158, 196,   *)
(* 201, 207, 212, 255-268) are read at the depth of the block around them. *)
(***************************************************************************)
EXTENDS Integers, Sequences, FiniteSets, TLC

\* ---------------------------------------------------------------- bounds
MaxSubmits == 1          \* run_job calls per behaviour of Spec
MaxPoolSubmits == 3      \* run_job calls per behaviour of PoolSpec
MaxCalls == 3            \* calls of AgentClient.call
MaxConns == 2            \* connections the socket server accepts
MaxPeerFrames == 2       \* frames written by peers other than AgentClient
MaxFrames == 3           \* frames written to the stream of FramingSpec
MaxRequests == 3         \* requests to the jobs router of the Panel
MaxCreates == 1          \* of them, requests that create a job
MaxPanelRuns == 2        \* job.run calls of the Panel that reach the Agent
MaxBroadcasts == 2
MaxLogs == 3             \* log entries the Agent appends for one job
MaxClock == 2            \* values datetime.utcnow() takes       \* messages broadcast by the SSEManager

\* ------------------------------------------------------ program constants
max_concurrent == 2      \* config "jobs.max_concurrent"
default_timeout == 600   \* config "jobs.default_timeout"
PRECHECK_TIMEOUT == 60
SNAPSHOT_TIMEOUT == 300
VERIFY_TIMEOUT == 60
MAX_FRAME == 10485760    \* 10 * 1024 * 1024, socket_server.py line 100

NULL == "null"           \* Python None

\* JobState
PENDING == "pending"
RUNNING == "running"
COMPLETED == "completed"
FAILED == "failed"
ROLLED_BACK == "rolled_back"
CANCELLED == "cancelled"
JobState == {PENDING, RUNNING, COMPLETED, FAILED, ROLLED_BACK, CANCELLED}

\* ------------------------------------------------------------ the inputs
SuppliedIds == {"a"}                       \* config["job_id"], when given
\* the run_job calls that are made: config["job_id"] (or none), job_type,
\* config["timeout"] (or none)
Submissions == {<<NULL, "bogus", NULL>>, <<NULL, "cleanup", NULL>>,
                <<"a", "cleanup", "10">>, <<"a", "update", NULL>>,
                <<NULL, "restore", NULL>>}
Workers == 1..max_concurrent

\* How long a capability operation runs, in seconds.
PrecheckDurations == {5, 100}
SnapshotDurations == {5, 700}
ExecuteDurations == {100, 700}
VerifyDurations == {5, 100}

\* What the capability operations may return.
NoReason == "noreason"                     \* the report has no "reason" key
PrecheckResults == {[passed |-> TRUE, reason |-> NoReason],
                    [passed |-> FALSE, reason |-> "disk full"]}
VerifyResults == {[passed |-> TRUE, reason |-> NoReason],
                  [passed |-> FALSE, reason |-> NoReason]}
EMPTY == "{}"                              \* an empty dict: a falsy value
SnapshotValues == {"snap", EMPTY}
ExecuteResults == {"{freed_mb: 120}", "{output: done}"}
ExceptionMessages == {"boom"}

\* A capability operation returns a value or raises
Returns(values) == [kind : {"return"}, value : values]
Raises == [kind : {"raise"}, value : ExceptionMessages]
PrecheckOutcomes == Returns(PrecheckResults) \cup Raises
SnapshotOutcomes == Returns(SnapshotValues) \cup Raises
ExecuteOutcomes == Returns(ExecuteResults) \cup Raises
VerifyOutcomes == Returns(VerifyResults) \cup Raises
RollbackOutcomes == Returns({NULL}) \cup Raises

\* The inputs of PoolSpec: jobs of one capability that returns or hangs
PoolSubmissions == {<<NULL, "cleanup", NULL>>, <<"a", "cleanup", NULL>>}
PoolPrecheckOutcomes == Returns({[passed |-> TRUE, reason |-> NoReason]})
PoolExecuteDurations == {100, 700}
PoolExecuteOutcomes == Returns({"{freed_mb: 120}"})

\* ------------------------------------------------------------- the state
VARIABLES
    running,        \* JobRunner._running
    lifecycle,      \* "new", "started", "stopping" (inside stop()), "stopped"
    stop_i,         \* index of the worker stop() is cancelling and awaiting
    workers,        \* JobRunner._workers: the worker tasks
    objs,           \* the Job objects ever created, in creation order
    jobs,           \* JobRunner._jobs: job id -> index into objs
    running_jobs,   \* JobRunner._running_jobs
    queue,          \* JobRunner._queue
    job_logs,       \* JobRunner._job_logs: job id -> list of entries
    pc,             \* where each worker task is suspended
    run,            \* each worker's locals in _execute_job
    runs,           \* history: per call of _execute_job, what it called and logged
    submits         \* number of run_job calls so far

RunnerVars == <<running, lifecycle, stop_i, workers, objs, jobs, running_jobs,
                queue, job_logs, pc, run, runs, submits>>

\* The RPC transport between the Panel's AgentClient and the Agent's
\* SocketServer
VARIABLES
    conns,          \* the connections accepted by SocketServer, in order
    connected,      \* AgentClient._connected
    stream,         \* AgentClient._reader/_writer: index into conns, 0 is None
    request_id,     \* AgentClient._request_id
    lock,           \* AgentClient._lock: the caller holding it, or null
    where,          \* where each caller of AgentClient.call is suspended
    request,        \* each caller's local request: its id, once built
    finished,       \* history: the calls of AgentClient.call that have ended
    begun,          \* number of calls of AgentClient.call so far
    frames_sent     \* number of frames written by other peers so far

TransportVars == <<conns, connected, stream, request_id, lock, where, request,
                   finished, begun, frames_sent>>

\* One byte stream of the framed channel, taken alone
VARIABLES
    wire,           \* the bytes written to the stream and not yet read
    written,        \* history: the payloads written, in order
    received        \* history: the payloads read, in order

FramingVars == <<wire, written, received>>

\* The Panel's jobs router and its database
VARIABLES
    jobs_table,     \* table jobs: job id -> row
    job_logs_table, \* table job_logs: the rows, in insertion order
    audit_log,      \* table audit_log: the rows, in insertion order
    task,           \* the request handlers of the router that are under way
    replies,        \* history: what each handler answered its last request
    requests        \* number of requests so far

PanelVars == <<jobs_table, job_logs_table, audit_log, task, replies, requests>>

\* The Panel's SSEManager (sse_manager)
VARIABLES
    clients,        \* SSEManager._clients: client id -> SSEClient
    channels,       \* SSEManager._channels: channel -> set of client ids
    broadcasts,     \* history: the messages broadcast, in order
    dequeued        \* history: what event_generator took from each queue

SseVars == <<clients, channels, broadcasts, dequeued>>

\* The readers of the Panel that run _sync_job_logs, and the Agent's clock
VARIABLES
    clock,          \* what datetime.utcnow() returns now
    sync            \* each reader's locals in _sync_job_logs

SyncVars == <<clock, sync>>

Elsewhere == <<TransportVars, FramingVars, PanelVars, SseVars, SyncVars>>

vars == <<RunnerVars, Elsewhere>>

\* class Job; config stands for config.get("timeout")
Job(id, type, timeout) ==
    [id |-> id, type |-> type, state |-> PENDING, config |-> timeout,
     result |-> NULL, error |-> NULL, started_at |-> NULL,
     completed_at |-> NULL]

utcnow == "T"            \* datetime.utcnow(): some non-null timestamp
\* datetime.utcnow() assigned to a field of a Job: the clock has moved on since
\* the field was last assigned, so assigning it again changes its value.  T1
\* is the value of the first assignment, T2 that of any later one.
Stamp(old) == IF old = NULL THEN "T1" ELSE "T2"

\* Job.to_dict: what run_job and get_status return
isoformat(t) == "iso:" \o t
to_dict(job) ==
    [id |-> job.id, type |-> job.type, state |-> job.state,
     config |-> job.config, result |-> job.result, error |-> job.error,
     started_at |-> IF job.started_at # NULL
                    THEN isoformat(job.started_at) ELSE NULL,
     completed_at |-> IF job.completed_at # NULL
                      THEN isoformat(job.completed_at) ELSE NULL]

\* locals of _execute_job: job, snapshot, result, verify_result's reason; id
\* is the index of this call in runs
NoRun == [id |-> 0, job |-> 0, snapshot |-> NULL, result |-> NULL,
          verify_reason |-> NULL]

\* History of one call of _execute_job: the Job object; the capability
\* operations called so far, each with how long it ran and how it ended; the
\* places in the code whose _append_log calls ran; and, once the call has
\* ended, the record's result before its last step, its state, error and
\* result after it, and where the worker went.
Outcome(job) == [state |-> job.state, error |-> job.error,
                 result |-> job.result]
NewRun(o, job) ==
    [job |-> o, calls |-> <<>>, logged |-> <<[tag |-> "start", at |-> 0]>>,
     done |-> FALSE, result_before |-> NULL, final |-> Outcome(job),
     after |-> "running"]

\* What get_job_status returns to the router when the Agent has no such job
NoStatus == [state |-> NULL, result |-> NULL, error |-> NULL,
             started_at |-> NULL, completed_at |-> NULL]

\* The request handlers of the jobs router that run at the same time, and
\* the locals of one that is not running
Handlers == {"h1", "h2"}
NoTask == [request |-> 0, endpoint |-> NULL, job_id |-> NULL, at |-> "idle",
           how |-> NULL, pulled |-> NoStatus]

NoBody == [state |-> NULL, progress |-> 0, result |-> NULL, error |-> NULL,
           started_at |-> NULL, completed_at |-> NULL]
NoReply == [request |-> 0, endpoint |-> NULL, job_id |-> NULL, code |-> 0, body |-> NoBody,
            logs |-> <<>>, how |-> NULL, pulled |-> NoStatus]

\* The client ids and channels of the SSEManager
ClientIds == {"x", "y"}
ChannelNames == {"jobs", "alerts"}

\* The coroutines of the Panel that call the one AgentClient (agent_client)
Callers == {"a", "b"}

\* A reader that is not inside _sync_job_logs
NoSync == [at |-> "idle", job_id |-> NULL, logs |-> <<>>, new_logs |-> <<>>]

Init ==
    /\ running = FALSE
    /\ lifecycle = "new"
    /\ stop_i = 0
    /\ workers = {}
    /\ objs = <<>>
    /\ jobs = <<>>
    /\ running_jobs = {}
    /\ queue = <<>>
    /\ job_logs = <<>>
    /\ pc = [w \in Workers |-> "unborn"]
    /\ run = [w \in Workers |-> NoRun]
    /\ runs = <<>>
    /\ submits = 0
    /\ conns = <<>>
    /\ connected = FALSE
    /\ stream = 0
    /\ request_id = 0
    /\ lock = NULL
    /\ where = [c \in Callers |-> "idle"]
    /\ request = [c \in Callers |-> NULL]
    /\ finished = <<>>
    /\ begun = 0
    /\ frames_sent = 0
    /\ wire = <<>>
    /\ written = <<>>
    /\ received = <<>>
    /\ jobs_table = <<>>
    /\ job_logs_table = <<>>
    /\ audit_log = <<>>
    /\ task = [r \in Handlers |-> NoTask]
    /\ replies = [r \in Handlers |-> NoReply]
    /\ requests = 0
    /\ clients = <<>>
    /\ channels = <<>>
    /\ broadcasts = <<>>
    /\ dequeued = [x \in ClientIds |-> <<>>]
    /\ clock = 1
    /\ sync = [r \in Handlers |-> NoSync]

\* dict.get(key) and dict[key] = value
Get(dict, key) == IF key \in DOMAIN dict THEN dict[key] ELSE NULL
Put(dict, key, value) == (key :> value) @@ dict

\* JobRunner._append_log, for several lines in a row
LogEntry(level, message) ==
    [level |-> level, message |-> message, created_at |-> utcnow]
append_logs(logs, job_id, entries) ==
    Put(logs, job_id,
        (IF job_id \in DOMAIN logs THEN logs[job_id] ELSE <<>>) \o entries)

\* JobRunner.start
Start ==
    /\ lifecycle = "new"
    /\ running' = TRUE
    /\ lifecycle' = "started"
    /\ workers' = Workers
    /\ pc' = [w \in Workers |-> "idle"]
    /\ UNCHANGED <<stop_i, objs, jobs, running_jobs, queue, job_logs, run,
                   runs, submits,
                   Elsewhere>>

\* asyncio.Queue.put on the unbounded queue
QueuePutLost(q, job_id) == q
QueuePutTwice(q, job_id) == Append(Append(q, job_id), job_id)
QueuePut(q, job_id) == Append(q, job_id)

\* str(uuid.uuid4())[:8]: an id no job has had
uuid4 == "u" \o ToString(submits + 1)

\* JobRunner.run_job.  supplied is config.get("job_id"): an id or None.
run_job(supplied, type, timeout) ==
    LET job_id == IF supplied # NULL THEN supplied ELSE uuid4
    IN /\ submits' = submits + 1
       /\ objs' = Append(objs, Job(job_id, type, timeout))
       /\ jobs' = Put(jobs, job_id, Len(objs) + 1)
       /\ queue' = QueuePut(queue, job_id)
       /\ job_logs' = append_logs(job_logs, job_id,
                                  <<LogEntry("info", "Job queued")>>)
       /\ UNCHANGED <<running, lifecycle, stop_i, workers, running_jobs, pc,
                      run, runs>>
RunJob(supplied, type, timeout) ==
    run_job(supplied, type, timeout) /\ UNCHANGED Elsewhere

\* JobRunner.cancel_job
cancel_job(job_id) ==
    /\ IF job_id \notin DOMAIN jobs
       THEN UNCHANGED objs
       ELSE \* _running_jobs.get(job_id) finds no task: nothing is interrupted
            objs' = [objs EXCEPT ![jobs[job_id]] =
                        [@ EXCEPT !.state = CANCELLED,
                                  !.completed_at = Stamp(@)]]
    /\ UNCHANGED <<running, lifecycle, stop_i, workers, jobs, running_jobs,
                   queue, job_logs, pc, run, runs, submits>>
CancelJob(job_id) == cancel_job(job_id) /\ UNCHANGED Elsewhere

\* ------------------------------------------------------ the capabilities
\* JobRunner._get_handler.  The source is a stub that returns None for every
\* type; the registry named in its TODO is modelled here: which of the
\* optional operations each capability has.
NoHandler == [none |-> TRUE, snapshot |-> FALSE, verify |-> FALSE,
              rollback |-> FALSE]
get_handler(job_type) ==
    CASE job_type = "cleanup" -> [none |-> FALSE, snapshot |-> FALSE,
                                  verify |-> FALSE, rollback |-> FALSE]
      [] job_type = "update"  -> [none |-> FALSE, snapshot |-> TRUE,
                                  verify |-> TRUE, rollback |-> TRUE]
      [] job_type = "restore" -> [none |-> FALSE, snapshot |-> TRUE,
                                  verify |-> TRUE, rollback |-> FALSE]
      [] OTHER -> NoHandler

\* asyncio.wait_for(coro, timeout): TimeoutError once the timeout has passed
TimedOut(duration, timeout) == duration > timeout

\* timeout=job.config.get("timeout", self._default_timeout)
ConfigSeconds(t) == IF t = "10" THEN 10 ELSE default_timeout
ExecuteTimeoutDefaultOnly(job) == default_timeout
ExecuteTimeout(job) ==
    IF job.config = NULL THEN default_timeout ELSE ConfigSeconds(job.config)

\* precheck_result.get("passed", False)
PrecheckPassedAlways(r) == TRUE
PrecheckPassed(r) == r.passed

\* verify_result.get("passed", True)
VerifyPassedNever(r) == FALSE
VerifyPassed(r) == r.passed

\* .get('reason', 'Unknown')
Reason(r) == IF r.reason = NoReason THEN "Unknown" ELSE r.reason

\* result.get("output")
Output(result) == IF result = "{output: done}" THEN "done" ELSE NULL

\* `if snapshot and hasattr(handler, "rollback")`: Python truthiness
Truthy(v) == v # NULL /\ v # EMPTY
WillRollback(handler, snapshot) == Truthy(snapshot) /\ handler.rollback

\* -------------------------------------------------------------- workers
InJob == {"precheck", "snapshot", "execute", "verify", "rollback"}
Live == {"idle"} \cup InJob

\* stop() has called worker.cancel() and is awaiting this worker
CancelPending(w) == lifecycle = "stopping" /\ stop_i = w /\ pc[w] \in Live

\* `await self._execute_job(job)`: the worker takes the next id only after
\* the job it is processing has finished
WorkerReadyNoAwait(w) == pc[w] \in Live
WorkerReady(w) == pc[w] = "idle"

\* `while self._running`, evaluated when _execute_job has returned
LoopHead == IF running THEN "idle" ELSE "exited"

\* value: what the operation returned, or the message of its exception;
\* report: the {passed, reason} dict precheck and verify return
NoReport == [passed |-> TRUE, reason |-> NoReason]
Call(phase, arg) ==
    [phase |-> phase, arg |-> arg, outcome |-> "pending", duration |-> 0,
     value |-> NULL, report |-> NoReport]
\* how: how the awaited operation ended
How(outcome, duration, value) ==
    [outcome |-> outcome, duration |-> duration, value |-> value,
     report |-> NoReport]
Reported(duration, report) ==
    [outcome |-> "return", duration |-> duration, value |-> NULL,
     report |-> report]
SetOutcome(calls, how) ==
    IF calls = <<>> THEN calls
    ELSE [calls EXCEPT ![Len(calls)] =
             [@ EXCEPT !.outcome = how.outcome, !.duration = how.duration,
                       !.value = how.value, !.report = how.report]]

\* lines: the _append_log calls of one step, as <<level, message, place>>
Entries(lines) == [i \in 1..Len(lines) |-> LogEntry(lines[i][1], lines[i][2])]
Tags(lines, at) == [i \in 1..Len(lines) |-> [tag |-> lines[i][3], at |-> at]]

\* the `finally` block of _execute_job
Finally(job) == [job EXCEPT !.completed_at = Stamp(@)]
FinishedLine(job) == "Job finished with state: " \o job.state

\* except asyncio.TimeoutError / except Exception, then finally
FailWithStateKept(job, error) == Finally([job EXCEPT !.error = error])
FailWith(job, error) == Finally([job EXCEPT !.state = FAILED, !.error = error])
FailLines(job, error) ==
    <<<<"error", error, "except">>, <<"info", FinishedLine(job), "finally">>>>

\* The worker leaves _execute_job: job2 is the record as the handlers and
\* the finally block leave it.
Leave(w, how, job2, lines, next_pc) ==
    LET r == runs[run[w].id]
    IN /\ objs' = [objs EXCEPT ![run[w].job] = job2]
       /\ job_logs' = append_logs(job_logs, job2.id, Entries(lines))
       /\ runs' = [runs EXCEPT ![run[w].id] =
             [r EXCEPT !.calls = SetOutcome(@, how),
                       !.logged = @ \o Tags(lines, Len(r.calls)),
                       !.done = TRUE,
                       !.result_before = objs[run[w].job].result,
                       !.final = Outcome(job2),
                       !.after = next_pc]]
       /\ run' = [run EXCEPT ![w] = NoRun]
       /\ pc' = [pc EXCEPT ![w] = next_pc]

\* The worker goes on to await the next capability operation
Await(w, how, phase, arg, locals, lines) ==
    LET r == runs[run[w].id]
    IN /\ run' = [run EXCEPT ![w] = locals]
       /\ runs' = [runs EXCEPT ![run[w].id] =
             [r EXCEPT !.calls = Append(SetOutcome(@, how), Call(phase, arg)),
                       !.logged = @ \o Tags(lines, Len(r.calls))]]
       /\ job_logs' = append_logs(job_logs, objs[run[w].job].id, Entries(lines))
       /\ pc' = [pc EXCEPT ![w] = phase]
       /\ UNCHANGED objs

\* _worker_loop: queue.get(), self._jobs.get(job_id), then _execute_job up to
\* its first await (handler.precheck), or to its end when there is no handler
WorkerDequeue(w) ==
    /\ WorkerReady(w)
    /\ ~CancelPending(w)
    /\ queue # <<>>
    /\ queue' = Tail(queue)
    /\ LET job_id == Head(queue)
       IN IF job_id \notin DOMAIN jobs
          THEN UNCHANGED <<objs, job_logs, run, runs, pc>>
          ELSE LET o == jobs[job_id]
                   job1 == [objs[o] EXCEPT !.state = RUNNING,
                                           !.started_at = Stamp(@)]
                   handler == get_handler(job1.type)
                   started == LogEntry("info", "Job started")
               IN IF handler.none
                  THEN LET msg == "Unknown job type: " \o job1.type
                           job2 == FailWith(job1, msg)
                           lines == FailLines(job2, msg)
                       IN /\ objs' = [objs EXCEPT ![o] = job2]
                          /\ job_logs' = append_logs(job_logs, job_id,
                                            <<started>> \o Entries(lines))
                          /\ runs' = Append(runs,
                                [NewRun(o, job1) EXCEPT
                                    !.logged = @ \o Tags(lines, 0),
                                    !.done = TRUE,
                                    !.result_before = job1.result,
                                    !.final = Outcome(job2),
                                    !.after = LoopHead])
                          /\ UNCHANGED run
                          /\ pc' = [pc EXCEPT ![w] = LoopHead]
                  ELSE /\ objs' = [objs EXCEPT ![o] = job1]
                       /\ job_logs' = append_logs(job_logs, job_id, <<started>>)
                       /\ runs' = Append(runs,
                             [NewRun(o, job1) EXCEPT
                                 !.calls = <<Call("precheck", NULL)>>])
                       /\ run' = [run EXCEPT ![w] =
                             [NoRun EXCEPT !.id = Len(runs) + 1, !.job = o]]
                       /\ pc' = [pc EXCEPT ![w] = "precheck"]
    /\ UNCHANGED <<running, lifecycle, stop_i, workers, jobs, running_jobs,
                   submits,
                   Elsewhere>>

\* What stays as it is when a worker moves inside _execute_job
WorkerFrame == UNCHANGED <<running, lifecycle, stop_i, workers, jobs,
                           running_jobs, queue, submits,
                           Elsewhere>>

\* except asyncio.TimeoutError (lines 198-202), then finally
LeaveTimeout(w, d) ==
    LET job2 == FailWith(objs[run[w].job], "Job timed out")
    IN Leave(w, How("timeout", d, NULL), job2,
             FailLines(job2, "Job timed out"), LoopHead)

\* except Exception (lines 204-208), then finally
LeaveException(w, how, message) ==
    LET job2 == FailWith(objs[run[w].job], message)
    IN Leave(w, how, job2, FailLines(job2, message), LoopHead)

\* "Success" (lines 193-196), then finally
LeaveSuccess(w, how, result, lines) ==
    LET job2 == Finally([objs[run[w].job] EXCEPT !.state = COMPLETED,
                                                 !.result = result])
    IN Leave(w, how, job2,
             lines \o <<<<"info", "Job completed", "success">>,
                        <<"info", FinishedLine(job2), "finally">>>>, LoopHead)

\* 1. Precheck (lines 149-158) and the call of the next operation
PrecheckDone(w, d, out) ==
    /\ pc[w] = "precheck"
    /\ ~CancelPending(w)
    /\ IF TimedOut(d, PRECHECK_TIMEOUT)
       THEN LeaveTimeout(w, d)
       ELSE IF out.kind = "raise"
       THEN LeaveException(w, How("raise", d, out.value), out.value)
       ELSE LET r == out.value
                how == Reported(d, r)
            IN IF ~PrecheckPassed(r)
               THEN LET msg == "Precheck failed: " \o Reason(r)
                        job2 == FailWith(objs[run[w].job], msg)
                    IN Leave(w, how, job2,
                             <<<<"error", msg, "precheck">>>>
                             \o FailLines(job2, msg), LoopHead)
               ELSE Await(w, how,
                          IF get_handler(objs[run[w].job].type).snapshot
                          THEN "snapshot" ELSE "execute",
                          NULL, run[w],
                          <<<<"info", "Precheck passed", "precheck">>>>)
    /\ WorkerFrame

\* 2. Snapshot (lines 160-167)
SnapshotDone(w, d, out) ==
    /\ pc[w] = "snapshot"
    /\ ~CancelPending(w)
    /\ IF TimedOut(d, SNAPSHOT_TIMEOUT)
       THEN LeaveTimeout(w, d)
       ELSE IF out.kind = "raise"
       THEN LeaveException(w, How("raise", d, out.value), out.value)
       ELSE Await(w, How("return", d, out.value), "execute", NULL,
                  [run[w] EXCEPT !.snapshot = out.value], <<>>)
    /\ WorkerFrame

\* 3. Execute (lines 169-176), and "Success" when there is no verify
ExecuteDone(w, d, out) ==
    /\ pc[w] = "execute"
    /\ ~CancelPending(w)
    /\ LET job == objs[run[w].job]
           handler == get_handler(job.type)
       IN IF TimedOut(d, ExecuteTimeout(job))
          THEN LeaveTimeout(w, d)
          ELSE IF out.kind = "raise"
          THEN LeaveException(w, How("raise", d, out.value), out.value)
          ELSE LET res == out.value
                   line == IF Output(res) # NULL
                           THEN <<<<"info", Output(res), "execute">>>>
                           ELSE <<>>
               IN IF handler.verify
                  THEN Await(w, How("return", d, res), "verify", res,
                             [run[w] EXCEPT !.result = res], line)
                  ELSE LeaveSuccess(w, How("return", d, res), res, line)
    /\ WorkerFrame

\* 4. Verify (lines 178-196)
VerifyDone(w, d, out) ==
    /\ pc[w] = "verify"
    /\ ~CancelPending(w)
    /\ LET job == objs[run[w].job]
           handler == get_handler(job.type)
       IN IF TimedOut(d, VERIFY_TIMEOUT)
          THEN LeaveTimeout(w, d)
          ELSE IF out.kind = "raise"
          THEN LeaveException(w, How("raise", d, out.value), out.value)
          ELSE LET r == out.value
                   how == Reported(d, r)
               IN IF ~VerifyPassed(r) /\ WillRollback(handler, run[w].snapshot)
                  THEN Await(w, how, "rollback", run[w].snapshot,
                             [run[w] EXCEPT !.verify_reason = Reason(r)], <<>>)
                  ELSE LeaveSuccess(w, how, run[w].result, <<>>)
    /\ WorkerFrame

\* `await handler.rollback(job, snapshot)` (lines 188-191): no timeout
RollbackDone(w, out) ==
    /\ pc[w] = "rollback"
    /\ ~CancelPending(w)
    /\ IF out.kind = "raise"
       THEN LeaveException(w, How("raise", 0, out.value), out.value)
       ELSE LET job2 == Finally([objs[run[w].job] EXCEPT
                      !.state = ROLLED_BACK,
                      !.error = "Verification failed: " \o run[w].verify_reason])
            IN Leave(w, How("return", 0, NULL), job2,
                     <<<<"info", FinishedLine(job2), "finally">>>>, LoopHead)
    /\ WorkerFrame

\* asyncio.CancelledError arrives in the worker at its await: no except
\* clause of _execute_job takes it, the finally block runs, the worker ends.
WorkerCancelled(w) ==
    /\ CancelPending(w)
    /\ IF pc[w] = "idle"
       THEN /\ pc' = [pc EXCEPT ![w] = "dead"]
            /\ UNCHANGED <<objs, job_logs, run, runs>>
       ELSE LET job2 == Finally(objs[run[w].job])
            IN Leave(w, How("cancelled", 0, NULL), job2,
                     <<<<"info", FinishedLine(job2), "finally">>>>, "dead")
    /\ WorkerFrame

\* queue.get() times out after 1.0 s, `continue`, `while self._running` ends
WorkerExit(w) ==
    /\ pc[w] = "idle"
    /\ ~CancelPending(w)
    /\ queue = <<>>
    /\ ~running
    /\ pc' = [pc EXCEPT ![w] = "exited"]
    /\ UNCHANGED <<running, lifecycle, stop_i, workers, objs, jobs,
                   running_jobs, queue, job_logs, run, runs, submits,
                   Elsewhere>>

\* ------------------------------------------------------------------ stop
\* The next worker of `for worker in self._workers` whose task is not done;
\* cancel() and await return at once on a task that is done.
NextToCancel(from, p) ==
    LET live == {w \in Workers : w >= from /\ p[w] \in Live}
    IN IF live = {} THEN 0 ELSE CHOOSE w \in live : \A v \in live : w <= v

\* stop(), lines 92-98: up to the first `await worker`
StopBegin ==
    /\ lifecycle = "started"
    /\ running' = FALSE
    /\ lifecycle' = "stopping"
    /\ stop_i' = NextToCancel(1, pc)
    /\ UNCHANGED <<workers, objs, jobs, running_jobs, queue, job_logs, pc, run,
                   runs, submits,
                   Elsewhere>>

\* stop(), lines 98-111: the awaited worker is done; cancel the next one, or
\* clear the workers and cancel what _running_jobs holds
StopAwaited ==
    /\ lifecycle = "stopping"
    /\ stop_i = 0 \/ pc[stop_i] \notin Live
    /\ LET n == NextToCancel(stop_i + 1, pc)
       IN IF stop_i # 0 /\ n # 0
          THEN /\ stop_i' = n
               /\ UNCHANGED <<lifecycle, workers, objs, running_jobs>>
          ELSE /\ stop_i' = 0
               /\ lifecycle' = "stopped"
               /\ workers' = {}
               /\ objs' = [o \in DOMAIN objs |->
                             IF objs[o].id \in running_jobs
                                /\ Get(jobs, objs[o].id) = o
                             THEN [objs[o] EXCEPT !.state = CANCELLED]
                             ELSE objs[o]]
               /\ running_jobs' = {}
    /\ UNCHANGED <<running, jobs, queue, job_logs, pc, run, runs, submits,
                   Elsewhere>>

\* ------------------------------------------------------ specifications
\* The whole runner: run_job, cancel_job, start, the workers, stop.
Next ==
    \/ Start
    \/ \E s \in Submissions :
         submits < MaxSubmits /\ RunJob(s[1], s[2], s[3])
    \/ \E i \in SuppliedIds \cup DOMAIN jobs : CancelJob(i)
    \/ \E w \in Workers : WorkerDequeue(w)
    \/ \E w \in Workers, d \in PrecheckDurations, out \in PrecheckOutcomes :
         PrecheckDone(w, d, out)
    \/ \E w \in Workers, d \in SnapshotDurations, out \in SnapshotOutcomes :
         SnapshotDone(w, d, out)
    \/ \E w \in Workers, d \in ExecuteDurations, out \in ExecuteOutcomes :
         ExecuteDone(w, d, out)
    \/ \E w \in Workers, d \in VerifyDurations, out \in VerifyOutcomes :
         VerifyDone(w, d, out)
    \/ \E w \in Workers, out \in RollbackOutcomes : RollbackDone(w, out)
    \/ \E w \in Workers : WorkerCancelled(w)
    \/ \E w \in Workers : WorkerExit(w)
    \/ StopBegin
    \/ StopAwaited

Spec == Init /\ [][Next]_vars

\* The worker pool on its own: the runner is started and not stopped, more
\* jobs are submitted than there are workers, and every operation of the
\* capability returns or runs into its timeout.
PoolWorker(w) ==
    \/ WorkerDequeue(w)
    \/ \E out \in PoolPrecheckOutcomes : PrecheckDone(w, 5, out)
    \/ \E d \in PoolExecuteDurations, out \in PoolExecuteOutcomes :
         ExecuteDone(w, d, out)

PoolNext ==
    \/ Start
    \/ \E s \in PoolSubmissions :
         submits < MaxPoolSubmits /\ RunJob(s[1], s[2], s[3])
    \/ \E w \in Workers : PoolWorker(w)

PoolSpec == Init /\ [][PoolNext]_vars

\* The event loop runs every task that is ready: weak fairness per worker
LivePoolSpec == PoolSpec /\ \A w \in Workers : WF_vars(PoolWorker(w))

\* Capability operations that may never return.  An operation awaited through
\* _run_with_timeout ends at its timeout at the latest, so the worker's next
\* step is sure to come; `await handler.rollback(job, snapshot)` ends only
\* when the capability returns or raises, which nothing makes it do.
BoundedWorker(w) ==
    \/ WorkerDequeue(w)
    \/ \E d \in PrecheckDurations, out \in PrecheckOutcomes :
         PrecheckDone(w, d, out)
    \/ \E d \in SnapshotDurations, out \in SnapshotOutcomes :
         SnapshotDone(w, d, out)
    \/ \E d \in ExecuteDurations, out \in ExecuteOutcomes :
         ExecuteDone(w, d, out)
    \/ \E d \in VerifyDurations, out \in VerifyOutcomes :
         VerifyDone(w, d, out)

HangNext ==
    \/ Start
    \/ \E s \in Submissions :
         submits < MaxSubmits /\ RunJob(s[1], s[2], s[3])
    \/ \E w \in Workers : BoundedWorker(w)
    \/ \E w \in Workers, out \in RollbackOutcomes : RollbackDone(w, out)

LiveHangSpec ==
    Init /\ [][HangNext]_vars /\ \A w \in Workers : WF_vars(BoundedWorker(w))

\* ------------------------------------------------------- the RPC transport
\* A frame on the wire: a 4-byte big-endian length prefix, then the payload.
\* A payload is kept as what its bytes are (form), what the JSON object in it
\* holds, and how many bytes it has (size).

\* int.to_bytes(4, byteorder="big") and int.from_bytes(.., byteorder="big")
to_bytes(n) ==
    <<n \div 16777216, (n \div 65536) % 256, (n \div 256) % 256, n % 256>>
from_bytes_little(b) == ((b[4] * 256 + b[3]) * 256 + b[2]) * 256 + b[1]
from_bytes(b) == ((b[1] * 256 + b[2]) * 256 + b[3]) * 256 + b[4]

\* len(request_bytes), len(response_bytes) of an ordinary message
RequestSize == 70
ResponseSize == 50

Frame(payload) == [prefix |-> to_bytes(payload.size), payload |-> payload]

\* json.dumps(request).encode("utf-8") of the request AgentClient.call builds
RequestBytes(id, method) ==
    [form |-> "object", id |-> id, method |-> method, params |-> EMPTY,
     size |-> RequestSize]

\* What another peer of the Unix socket may write: payloads that are not
\* UTF-8, not JSON, not an object, objects without a usable method or with
\* params that are not an object, and frames at and above the limit.
Bytes(form, id, method, params, size) ==
    [form |-> form, id |-> id, method |-> method, params |-> params,
     size |-> size]
PeerPayloads ==
    { Bytes("object", "7", "job.status", EMPTY, RequestSize),
      Bytes("object", NULL, "job.status", EMPTY, RequestSize),
      Bytes("object", "8", NULL, EMPTY, RequestSize),
      Bytes("object", "9", "int:5", EMPTY, RequestSize),
      Bytes("object", "10", "job.status", "list:[1]", RequestSize),
      Bytes("array", NULL, NULL, NULL, RequestSize),
      Bytes("invalid_json", NULL, NULL, NULL, RequestSize),
      Bytes("invalid_utf8", NULL, NULL, NULL, RequestSize),
      Bytes("object", "11", "job.status", EMPTY, MAX_FRAME),
      Bytes("object", "12", "job.status", EMPTY, MAX_FRAME + 1) }

\* What self.handler(method, params) does: it returns a dict with "result",
\* a dict with "error", a value that is not a dict, or it raises; size is
\* the length of the response that carries the value
HandlerOutcomes ==
    { [how |-> "result", value |-> "{state: running}", size |-> ResponseSize],
      [how |-> "result", value |-> "{logs: ...}", size |-> MAX_FRAME + 1],
      [how |-> "error", value |-> "Job not found", size |-> ResponseSize],
      [how |-> "plain", value |-> "true", size |-> ResponseSize],
      [how |-> "raise", value |-> "boom", size |-> ResponseSize] }

\* SocketServer._error_response
error_response(id, code, message) ==
    [id |-> id, has |-> "error", code |-> code, value |-> message,
     size |-> ResponseSize]

IsStr(v) == v # NULL /\ v \notin {"int:5"}
IsDict(v) == v \in {EMPTY, "dict"}

\* Whether _process_request gets as far as calling the handler
Dispatched(req) ==
    /\ req.form = "object"
    /\ req.method # NULL /\ req.method # ""
    /\ IsStr(req.method)
    /\ ~(Truthy(req.params) /\ ~IsDict(req.params))

\* SocketServer._process_request; h is what the handler does
process_request(req, h) ==
    IF req.form # "object"
    THEN error_response(NULL, -32600, "Invalid Request")
    ELSE IF req.method = NULL \/ req.method = ""
    THEN error_response(req.id, -32600, "Method required")
    ELSE IF ~IsStr(req.method)
    THEN error_response(req.id, -32600, "Method must be string")
    ELSE IF Truthy(req.params) /\ ~IsDict(req.params)
    THEN error_response(req.id, -32602, "Params must be object")
    ELSE IF h.how = "raise"
    THEN error_response(req.id, -32603, "Internal error: " \o h.value)
    ELSE IF h.how = "error"
    THEN error_response(req.id, -32000, h.value)
    ELSE [id |-> req.id, has |-> "result", code |-> 0, value |-> h.value,
          size |-> h.size]

\* One connection of the server: what the peer wrote and the server has not
\* read (inbox), what the server wrote and the peer has not read (outbox),
\* whether _handle_client is still in its loop (serving), and what it did
Connection(owner) ==
    [owner |-> owner, inbox |-> <<>>, outbox |-> <<>>, serving |-> TRUE,
     events |-> <<>>]
Event(op, n, id, what) == [op |-> op, n |-> n, id |-> id, what |-> what]

\* finally: writer.close() (lines 126-128)
Closed(conn, events) ==
    [conn EXCEPT !.serving = FALSE, !.inbox = <<>>,
                 !.events = @ \o events \o <<Event("close", 0, NULL, NULL)>>]

\* The length check of _handle_client, line 100
TooLarge(length) == length > MAX_FRAME

\* One turn of the loop of SocketServer._handle_client on a connection
HandleRequest(conn, h) ==
    LET frame == Head(conn.inbox)
        length == from_bytes(frame.prefix)
        req == frame.payload
        header == Event("readexactly", 4, NULL, NULL)
        declared == Event("length", length, NULL, NULL)
        body == Event("readexactly", length, req.id, req.form)
        response == IF req.form = "invalid_json"
                    THEN error_response(NULL, -32700, "Parse error")
                    ELSE process_request(req, h)
        called == IF req.form # "invalid_json" /\ Dispatched(req)
                  THEN <<Event("handler", 0, req.id, req.method)>>
                  ELSE <<>>
    IN IF TooLarge(length)
       THEN Closed(conn, <<header, declared>>)
       ELSE IF req.form = "invalid_utf8"
       THEN \* message_bytes.decode raises: except Exception, line 124
            Closed(conn, <<header, declared, body>>)
       ELSE [conn EXCEPT
               !.inbox = Tail(@),
               !.outbox = Append(@, Frame(response)),
               !.events = @ \o <<header, declared, body>> \o called \o
                          <<Event("write", response.size, response.id,
                                  response.has)>>]

TransportFrame == UNCHANGED <<RunnerVars, FramingVars, PanelVars, SseVars, SyncVars>>

HandleClient(k, h) ==
    /\ k \in DOMAIN conns
    /\ conns[k].serving
    /\ conns[k].inbox # <<>>
    /\ conns' = [conns EXCEPT ![k] = HandleRequest(@, h)]
    /\ UNCHANGED <<connected, stream, request_id, lock, where, request,
                   finished, begun, frames_sent>>
    /\ TransportFrame

\* Another process connects to the socket and writes a frame
PeerConnect ==
    /\ Len(conns) < MaxConns
    /\ conns' = Append(conns, Connection("peer"))
    /\ UNCHANGED <<connected, stream, request_id, lock, where, request,
                   finished, begun, frames_sent>>
    /\ TransportFrame

PeerWrite(k, payload) ==
    /\ k \in DOMAIN conns
    /\ conns[k].owner = "peer"
    /\ conns[k].serving
    /\ frames_sent < MaxPeerFrames
    /\ frames_sent' = frames_sent + 1
    /\ conns' = [conns EXCEPT ![k].inbox = Append(@, Frame(payload))]
    /\ UNCHANGED <<connected, stream, request_id, lock, where, request,
                   finished, begun>>
    /\ TransportFrame

\* The connection is lost: readexactly raises IncompleteReadError in
\* _handle_client (lines 122-128), and on the other end as well
ConnectionLost(k) ==
    /\ k \in DOMAIN conns
    /\ conns[k].serving
    /\ conns' = [conns EXCEPT ![k] = Closed(@, <<>>)]
    /\ UNCHANGED <<connected, stream, request_id, lock, where, request,
                   finished, begun, frames_sent>>
    /\ TransportFrame

\* ---------------------------------------------------------- AgentClient
Methods == {"job.status"}

\* How a call of AgentClient.call ended
Ended(c, how, length, response) ==
    [caller |-> c, request |-> request[c], how |-> how, length |-> length,
     id |-> response.id, value |-> response.value, stream |-> stream]
NoResponse == [id |-> NULL, value |-> NULL]

\* Leaving "async with self._lock" and the call
LeaveCall(c, how, length, response) ==
    /\ finished' = Append(finished, Ended(c, how, length, response))
    /\ where' = [where EXCEPT ![c] = "idle"]
    /\ request' = [request EXCEPT ![c] = NULL]
    /\ lock' = IF lock = c THEN NULL ELSE lock

\* lines 65-79: the next id, the request, write and drain on cs[k]
SendRequest(c, cs, k, method) ==
    /\ request_id' = request_id + 1
    /\ request' = [request EXCEPT ![c] = ToString(request_id + 1)]
    /\ conns' = [cs EXCEPT ![k].inbox =
                    IF cs[k].serving
                    THEN Append(@, Frame(RequestBytes(
                                    ToString(request_id + 1), method)))
                    ELSE @]
    /\ where' = [where EXCEPT ![c] = "read"]

\* AgentClient.call is called and waits for the lock
CallBegin(c) ==
    /\ where[c] = "idle"
    /\ begun < MaxCalls
    /\ begun' = begun + 1
    /\ where' = [where EXCEPT ![c] = "lock"]
    /\ UNCHANGED <<conns, connected, stream, request_id, lock, request,
                   finished, frames_sent>>
    /\ TransportFrame

\* The lock is acquired (line 60); a connected client sends at once
Acquire(c, method) ==
    /\ where[c] = "lock"
    /\ lock = NULL
    /\ lock' = c
    /\ IF connected
       THEN SendRequest(c, conns, stream, method)
       ELSE /\ where' = [where EXCEPT ![c] = "connect"]
            /\ UNCHANGED <<conns, request_id, request>>
    /\ UNCHANGED <<connected, stream, finished, begun, frames_sent>>
    /\ TransportFrame

\* AgentClient.connect returns (lines 29-47, 61-63)
ConnectDone(c, ok, method) ==
    /\ where[c] = "connect"
    /\ ok => Len(conns) < MaxConns
    /\ IF ok
       THEN /\ connected' = TRUE
            /\ stream' = Len(conns) + 1
            /\ SendRequest(c, Append(conns, Connection("client")),
                           Len(conns) + 1, method)
            /\ UNCHANGED <<lock, finished>>
       ELSE /\ LeaveCall(c, "ConnectionError", 0, NoResponse)
            /\ UNCHANGED <<conns, connected, stream, request_id>>
    /\ UNCHANGED <<begun, frames_sent>>
    /\ TransportFrame

\* lines 82-97: the length prefix, then that many bytes, then the result
ReadResponse(c) ==
    /\ where[c] = "read"
    /\ conns[stream].outbox # <<>>
    /\ LET frame == Head(conns[stream].outbox)
           length == from_bytes(frame.prefix)
           response == frame.payload
       IN LeaveCall(c, IF response.has = "error" THEN "RPC error"
                       ELSE "return", length, response)
    /\ conns' = [conns EXCEPT ![stream].outbox = Tail(@)]
    /\ UNCHANGED <<connected, stream, request_id, begun, frames_sent>>
    /\ TransportFrame

\* except (TimeoutError, IncompleteReadError, ConnectionError), lines 99-102
CaughtTimeoutOnly == {"TimeoutError"}
CaughtInCall == {"TimeoutError", "IncompleteReadError", "ConnectionError"}
ReadFailed(c, how) ==
    /\ where[c] = "read"
    /\ conns[stream].outbox = <<>>
    /\ how = "IncompleteReadError" => ~conns[stream].serving
    /\ connected' = IF how \in CaughtInCall THEN FALSE ELSE connected
    /\ LeaveCall(c, how, 0, NoResponse)
    /\ UNCHANGED <<conns, stream, request_id, begun, frames_sent>>
    /\ TransportFrame

\* The caller's task is cancelled at an await: CancelledError is not caught
\* at line 99, the lock is released on the way out
CallerCancelled(c) ==
    /\ where[c] \in {"lock", "connect", "read"}
    /\ LeaveCall(c, "CancelledError", 0, NoResponse)
    /\ UNCHANGED <<conns, connected, stream, request_id, begun, frames_sent>>
    /\ TransportFrame

\* The server and the peers that write frames to it
ServerNext ==
    \/ PeerConnect
    \/ \E k \in 1..MaxConns, payload \in PeerPayloads : PeerWrite(k, payload)
    \/ \E k \in 1..MaxConns, h \in HandlerOutcomes : HandleClient(k, h)
    \/ \E k \in 1..MaxConns : ConnectionLost(k)

ServerSpec == Init /\ [][ServerNext]_vars

\* The Panel's callers of agent_client.call and the server that answers
ClientNext ==
    \/ \E c \in Callers : CallBegin(c)
    \/ \E c \in Callers, method \in Methods : Acquire(c, method)
    \/ \E c \in Callers, ok \in BOOLEAN, method \in Methods :
          ConnectDone(c, ok, method)
    \/ \E c \in Callers : ReadResponse(c)
    \/ \E c \in Callers, how \in {"TimeoutError", "IncompleteReadError"} :
          ReadFailed(c, how)
    \/ \E c \in Callers : CallerCancelled(c)
    \/ \E k \in 1..MaxConns, h \in HandlerOutcomes : HandleClient(k, h)
    \/ \E k \in 1..MaxConns : ConnectionLost(k)

ClientSpec == Init /\ [][ClientNext]_vars

\* ----------------------------------------------------- the Agent's RPC
\* PiAgent._handle_rpc, lines 105-142: the methods that have a handler
\* (the job methods, and one of the others)
Registered == {"job.run", "job.status", "job.cancel", "system.health"}

\* The job methods AgentClient has a call for (agent_client.py, 146-161)
ClientJobMethods == {"job.run", "job.status", "job.cancel"}

\* A request whose params are keyword arguments: keys says which
Args(keys, job_id, job_type) ==
    [keys |-> keys, job_id |-> job_id, job_type |-> job_type]
Request(id, method, args) ==
    [form |-> "object", id |-> id, method |-> method, params |-> "dict",
     size |-> RequestSize, args |-> args]

\* What reaches the Agent: the job requests of the Panel, a request for a
\* method without a handler, and everything a peer can get wrong
AgentPayloads ==
    { Request("1", "job.run", Args("job_type,name,config", NULL, "cleanup")),
      Request("2", "job.status", Args("job_id", "u1", NULL)),
      Request("3", "job.cancel", Args("job_id", "u1", NULL)),
      Request("4", "job.logs", Args("job_id", "u1", NULL)),
      Request("5", "no.such.method", Args("job_id", "u1", NULL)),
      [Request("6", "job.run", Args("job_type,name,config", NULL, "cleanup"))
          EXCEPT !.size = MAX_FRAME + 1] }
    \cup {p \in PeerPayloads : p.method # "job.status" \/ p.size > MAX_FRAME}

\* handler(**params): whether the keyword arguments fit the handler
Fits(method, req) ==
    /\ req.params = "dict"
    /\ req.args.keys = (IF method = "job.run" THEN "job_type,name,config"
                        ELSE "job_id")

\* PiAgent._handle_rpc, lines 144-153: what it returns, as the server
\* reads it: a dict with "error", or a dict with "result"
handle_rpc(req) ==
    LET answer(how, value) ==
            [how |-> how, value |-> value, size |-> ResponseSize]
    IN IF req.method \notin Registered
       THEN answer("error", "Unknown method: " \o req.method)
       ELSE IF req.method = "system.health"
       THEN answer("result", "{status: healthy}")
       ELSE IF ~Fits(req.method, req)
       THEN answer("error", "TypeError")
       ELSE IF req.method = "job.run"
       THEN answer("result", "{id: " \o uuid4 \o ", state: pending}")
       ELSE IF req.method = "job.status"
       THEN answer("result",
                   IF req.args.job_id \in DOMAIN jobs
                   THEN "{state: " \o objs[jobs[req.args.job_id]].state \o "}"
                   ELSE NULL)
       ELSE answer("result",
                   IF req.args.job_id \in DOMAIN jobs
                   THEN "{success: true}"
                   ELSE "{success: false, error: Job not found}")

HandledUnchecked(frame) == TRUE
\* Whether the loop of _handle_client gets as far as _handle_rpc with it
Handled(frame) ==
    /\ ~TooLarge(from_bytes(frame.prefix))
    /\ frame.payload.form \notin {"invalid_utf8", "invalid_json"}
    /\ Dispatched(frame.payload)

\* One turn of the loop of _handle_client with PiAgent._handle_rpc as the
\* handler: the job methods act on the JobRunner
AgentHandle(k) ==
    /\ k \in DOMAIN conns
    /\ conns[k].serving
    /\ conns[k].inbox # <<>>
    /\ LET frame == Head(conns[k].inbox)
           req == frame.payload
           acts == Handled(frame) /\ req.method \in Registered
                   /\ Fits(req.method, req)
       IN /\ conns' = [conns EXCEPT ![k] =
                          HandleRequest(@, IF Handled(frame)
                                           THEN handle_rpc(req)
                                           ELSE CHOOSE h \in HandlerOutcomes :
                                                    TRUE)]
          /\ IF acts /\ req.method = "job.run"
             THEN /\ submits < MaxSubmits
                  /\ run_job(NULL, req.args.job_type, NULL)
             ELSE IF acts /\ req.method = "job.cancel"
             THEN cancel_job(req.args.job_id)
             ELSE UNCHANGED RunnerVars
    /\ UNCHANGED <<connected, stream, request_id, lock, where, request,
                   finished, begun, frames_sent>>
    /\ UNCHANGED <<FramingVars, PanelVars, SseVars, SyncVars>>

AgentNext ==
    \/ Start
    \/ \E w \in Workers : PoolWorker(w)
    \/ PeerConnect
    \/ \E k \in 1..MaxConns, payload \in AgentPayloads : PeerWrite(k, payload)
    \/ \E k \in 1..MaxConns : AgentHandle(k)
    \/ \E k \in 1..MaxConns : ConnectionLost(k)

AgentSpec == Init /\ [][AgentNext]_vars

\* The event loop runs every task that is ready
LiveAgentSpec ==
    /\ AgentSpec
    /\ WF_vars(Start)
    /\ \A w \in Workers : WF_vars(PoolWorker(w))

\* --------------------------------------------------------------- framing
\* The bytes of a stream are kept run-length encoded: a run is count copies
\* of one byte, no run is empty and neighbouring runs differ in their byte,
\* so two streams hold the same bytes exactly when they are equal.
Run(byte, count) == [byte |-> byte, count |-> count]

RECURSIVE Size(_)
Size(bytes) ==
    IF bytes = <<>> THEN 0 ELSE Head(bytes).count + Size(Tail(bytes))

\* b1 + b2 on bytes, as StreamWriter.write appends to what was written
Cat(a, b) ==
    IF a = <<>> THEN b
    ELSE IF b = <<>> THEN a
    ELSE IF a[Len(a)].byte = Head(b).byte
    THEN SubSeq(a, 1, Len(a) - 1)
         \o <<Run(Head(b).byte, a[Len(a)].count + Head(b).count)>>
         \o Tail(b)
    ELSE a \o b

\* StreamReader.readexactly(n): the first n bytes, and the bytes left behind
RECURSIVE Take(_, _)
Take(bytes, n) ==
    IF n = 0 \/ bytes = <<>> THEN <<>>
    ELSE IF Head(bytes).count <= n
    THEN <<Head(bytes)>> \o Take(Tail(bytes), n - Head(bytes).count)
    ELSE <<Run(Head(bytes).byte, n)>>
RECURSIVE Drop(_, _)
Drop(bytes, n) ==
    IF n = 0 \/ bytes = <<>> THEN bytes
    ELSE IF Head(bytes).count <= n
    THEN Drop(Tail(bytes), n - Head(bytes).count)
    ELSE <<Run(Head(bytes).byte, Head(bytes).count - n)>> \o Tail(bytes)

\* The i-th byte, i from 1
RECURSIVE At(_, _)
At(bytes, i) ==
    IF i <= Head(bytes).count THEN Head(bytes).byte
    ELSE At(Tail(bytes), i - Head(bytes).count)

\* The 4 bytes of a length prefix as bytes of the stream, and back
PrefixBytes(n) ==
    LET b == to_bytes(n)
    IN Cat(Cat(<<Run(b[1], 1)>>, <<Run(b[2], 1)>>),
           Cat(<<Run(b[3], 1)>>, <<Run(b[4], 1)>>))
DeclaredLength(bytes) ==
    from_bytes(<<At(bytes, 1), At(bytes, 2), At(bytes, 3), At(bytes, 4)>>)

\* The payloads written: none at all, bytes that look like a prefix, bytes
\* of several values, and a payload as long as the limit allows
Payloads ==
    { <<>>,
      <<Run(0, 1)>>,
      <<Run(0, 4)>>,
      <<Run(0, 3), Run(1, 1), Run(0, 5)>>,
      <<Run(123, 2), Run(34, 1)>>,
      <<Run(0, MAX_FRAME)>> }

FramingFrame == UNCHANGED <<RunnerVars, TransportVars, PanelVars, SseVars, SyncVars>>

\* writer.write(len(b).to_bytes(4, byteorder="big")); writer.write(b)
WriteFrame(payload) ==
    /\ Len(written) < MaxFrames
    /\ wire' = Cat(Cat(wire, PrefixBytes(Size(payload))), payload)
    /\ written' = Append(written, payload)
    /\ UNCHANGED received
    /\ FramingFrame

\* Whether readexactly(4), the length check and readexactly(length) all
\* complete on the bytes that are there
FrameReady ==
    /\ Size(wire) >= 4
    /\ ~TooLarge(DeclaredLength(wire))
    /\ Size(wire) >= 4 + DeclaredLength(wire)

\* length_bytes = readexactly(4); length = int.from_bytes(length_bytes);
\* message_bytes = readexactly(length)
ReadFrame ==
    /\ FrameReady
    /\ LET length == DeclaredLength(Take(wire, 4))
       IN /\ received' = Append(received, Take(Drop(wire, 4), length))
          /\ wire' = Drop(wire, 4 + length)
    /\ UNCHANGED written
    /\ FramingFrame

FramingNext ==
    \/ \E payload \in Payloads : WriteFrame(payload)
    \/ ReadFrame

FramingSpec == Init /\ [][FramingNext]_vars

\* ---------------------------------------------------------------- claims
\* the states the specification calls terminal
Terminal == {COMPLETED, FAILED, ROLLED_BACK, CANCELLED}
RunningJobs == {o \in DOMAIN objs : objs[o].state = RUNNING}
Handler(r) == get_handler(objs[runs[r].job].type)
Returned(call) == call.outcome = "return"
NotPassed(call) == Returned(call) /\ ~call.report.passed
ReportedReason(call) ==
    IF call.report.reason = NoReason THEN "Unknown" ELSE call.report.reason
CallsOf(r, phase) == {i \in DOMAIN runs[r].calls : runs[r].calls[i].phase = phase}

\* C1: a job record whose state has become terminal (Completed, Failed,
\* RolledBack, Cancelled) never changes state again, under any interleaving
\* of run_job, worker steps, cancel_job and stop.
C1_TerminalStateIsFinal ==
    [][\A o \in DOMAIN objs :
          objs[o].state \in Terminal => objs'[o].state = objs[o].state]_vars

\* C2: in every reachable state, for every job record, completed_at is
\* non-null if and only if state is terminal.
C2_CompletedAtIffTerminal ==
    \A o \in DOMAIN objs :
        (objs[o].completed_at # NULL) <=> (objs[o].state \in Terminal)

\* C3: with max_concurrent workers started, at every instant at most
\* max_concurrent job records are Running, however many jobs were submitted.
C3_AtMostNRunning == Cardinality(RunningJobs) <= max_concurrent

\* C3 happens: more jobs submitted than workers, every worker is running one
\* and a job waits in the queue.
C3_Witness ==
    /\ submits > max_concurrent
    /\ Cardinality(RunningJobs) = max_concurrent
    /\ queue # <<>>

\* C4: with the workers started and not stopped, every submitted job (the
\* record the store holds for its id) eventually reaches a terminal state.
PoolIds == SuppliedIds \cup {"u" \o ToString(n) : n \in 1..MaxPoolSubmits}
C4_EveryJobTerminates ==
    \A i \in PoolIds :
        (lifecycle = "started" /\ i \in DOMAIN jobs)
            ~> (i \in DOMAIN jobs /\ objs[jobs[i]].state \in Terminal)

\* C4 happens: more jobs than workers were submitted and all have ended,
\* one of them by its timeout.
C4_Witness ==
    /\ Len(objs) > max_concurrent
    /\ queue = <<>>
    /\ \A o \in DOMAIN objs : objs[o].state \in Terminal
    /\ \E o \in DOMAIN objs : objs[o].error = "Job timed out"

\* C5: every queued job is claimed by exactly one worker: no two workers
\* execute the same job record at once and no job record goes through
\* _execute_job more than once, also when run_job is given the id of a
\* record that exists.
C5_ClaimedExactlyOnce ==
    /\ \A v, w \in Workers :
         (pc[v] \in InJob /\ pc[w] \in InJob /\ run[v].job = run[w].job)
            => v = w
    /\ \A q, r \in DOMAIN runs : runs[q].job = runs[r].job => q = r

\* C6: when precheck reports passed = false, _execute_job ends the job as
\* Failed with the error "Precheck failed: <reason>", and it calls neither
\* snapshot, execute, verify nor rollback.
C6_PrecheckNotPassedFails ==
    \A r \in DOMAIN runs :
        LET c == runs[r].calls
        IN (c # <<>> /\ NotPassed(c[1]))
              => /\ Len(c) = 1
                 /\ runs[r].done
                 /\ runs[r].final.state = FAILED
                 /\ runs[r].final.error
                       = "Precheck failed: " \o ReportedReason(c[1])

\* C6 happens: a precheck has reported not-passed and the job is Failed.
C6_Witness ==
    \E r \in DOMAIN runs :
        /\ runs[r].calls # <<>>
        /\ NotPassed(runs[r].calls[1])
        /\ objs[runs[r].job].state = FAILED

\* C7: when execute runs longer than its timeout (config["timeout"] if the
\* job has one, else the default), _execute_job ends the job as Failed with
\* the error "Job timed out", sets no result, and calls neither verify nor
\* rollback.
DeclaredTimeout(job) ==
    IF job.config = "10" THEN 10 ELSE default_timeout
C7_ExecuteTimeoutFails ==
    \A r \in DOMAIN runs :
        LET c == runs[r].calls
        IN \A i \in DOMAIN c :
             (/\ c[i].phase = "execute"
              /\ c[i].outcome \in {"return", "raise", "timeout"}
              /\ c[i].duration > DeclaredTimeout(objs[runs[r].job]))
                => /\ i = Len(c)
                   /\ runs[r].done
                   /\ runs[r].final.state = FAILED
                   /\ runs[r].final.error = "Job timed out"
                   /\ runs[r].final.result = runs[r].result_before

\* C7 happens: an execute ran past the timeout of the job's config, not past
\* the default, and the job is Failed with a null result.
C7_Witness ==
    \E r \in DOMAIN runs :
        LET c == runs[r].calls
            job == objs[runs[r].job]
        IN /\ c # <<>>
           /\ c[Len(c)].phase = "execute"
           /\ c[Len(c)].outcome = "timeout"
           /\ c[Len(c)].duration < default_timeout
           /\ job.state = FAILED
           /\ job.result = NULL

\* C8: when the capability has snapshot and rollback, snapshot returned a
\* value and verify reports not-passed, rollback is called exactly once,
\* with the value snapshot returned, and the job ends RolledBack with the
\* verify failure as its error.
C8_VerifyFailureRollsBack ==
    \A r \in DOMAIN runs :
        LET c == runs[r].calls
        IN \A i, j \in DOMAIN c :
             (/\ runs[r].done
              /\ Handler(r).rollback
              /\ c[i].phase = "snapshot" /\ Returned(c[i])
              /\ c[j].phase = "verify" /\ NotPassed(c[j]))
                => /\ Cardinality(CallsOf(r, "rollback")) = 1
                   /\ \A k \in CallsOf(r, "rollback") : c[k].arg = c[i].value
                   /\ runs[r].final.state = ROLLED_BACK
                   /\ runs[r].final.error
                         = "Verification failed: " \o ReportedReason(c[j])

\* C9: every phase error (a timeout or an exception of an operation, a
\* precheck or verify that reports not-passed) ends the job in a terminal
\* state with a non-null error, and the worker is not ended by it.
PhaseError(call) ==
    \/ call.outcome \in {"timeout", "raise"}
    \/ call.phase \in {"precheck", "verify"} /\ NotPassed(call)
C9_PhaseErrorsRecorded ==
    \A r \in DOMAIN runs :
        (runs[r].done /\ \E i \in DOMAIN runs[r].calls :
                             PhaseError(runs[r].calls[i]))
            => /\ runs[r].final.state \in Terminal
               /\ runs[r].final.error # NULL
               /\ runs[r].after \in {"idle", "exited"}

\* C10: within one call of _execute_job the operations run in the order
\* precheck, snapshot, execute, verify, rollback, each at most once, each
\* only after the one before it has returned (precheck: passed), and the
\* log lines are appended in the order of the operations that produced them.
Rank(phase) ==
    CASE phase = "precheck" -> 1 [] phase = "snapshot" -> 2
      [] phase = "execute" -> 3 [] phase = "verify" -> 4
      [] phase = "rollback" -> 5
C10_PhasesInOrder ==
    \A r \in DOMAIN runs :
        LET c == runs[r].calls
            l == runs[r].logged
        IN /\ \A i \in 1..(Len(c) - 1) :
                /\ Rank(c[i].phase) < Rank(c[i + 1].phase)
                /\ Returned(c[i])
                /\ c[i].phase = "precheck" => c[i].report.passed
           /\ \A i \in 1..(Len(l) - 1) : l[i].at <= l[i + 1].at
           /\ \A i \in DOMAIN l : l[i].tag \in InJob => c[l[i].at].phase = l[i].tag
           /\ (Len(objs) = 1 /\ Len(runs) = 1)
                 => Len(job_logs[objs[1].id]) = 1 + Len(l)

\* C10 happens: one job went through all five operations and logged after
\* precheck and after execute.
C10_Witness ==
    \E r \in DOMAIN runs :
        /\ runs[r].done
        /\ Len(runs[r].calls) = 5
        /\ \E i, j \in DOMAIN runs[r].logged :
             /\ i < j
             /\ runs[r].logged[i].tag = "precheck"
             /\ runs[r].logged[j].tag = "execute"

\* C11: whenever a job record is Completed its result is the value execute
\* returned and its error is null; whenever it is Failed or RolledBack its
\* error is non-null and its result is null.
ExecuteReturned(o, value) ==
    \E r \in DOMAIN runs :
        /\ runs[r].job = o
        /\ \E i \in CallsOf(r, "execute") :
             Returned(runs[r].calls[i]) /\ runs[r].calls[i].value = value
C11_ResultAndErrorMatchState ==
    \A o \in DOMAIN objs :
        /\ objs[o].state = COMPLETED
              => objs[o].error = NULL /\ ExecuteReturned(o, objs[o].result)
        /\ objs[o].state \in {FAILED, ROLLED_BACK}
              => objs[o].error # NULL /\ objs[o].result = NULL

\* C12: at the step in which a worker leaves _execute_job, by whatever exit
\* path, the job's completed_at is non-null and the last entry of the job's
\* log is 'Job finished with state: S', S being the record's state at that
\* moment and a terminal state.
Finishes(r) ==
    /\ r \in DOMAIN runs'
    /\ runs'[r].done
    /\ r \in DOMAIN runs => ~runs[r].done
LastLog(logs, job_id) == logs[job_id][Len(logs[job_id])]
C12_FinishedLineIsTerminal ==
    [][\A r \in 1..(Len(runs) + 1) :
          Finishes(r) =>
             LET job == objs'[runs'[r].job]
             IN /\ job.completed_at # NULL
                /\ LastLog(job_logs', job.id).message
                      = "Job finished with state: " \o job.state
                /\ job.state \in Terminal]_vars

\* C13: each job's started_at is assigned at most once, and only at a step
\* that takes the job out of Pending; its completed_at is assigned at most
\* once, and only at a step that takes the job into a terminal state; neither
\* is overwritten afterwards.
C13_TimestampsAssignedOnce ==
    [][\A o \in DOMAIN objs :
          /\ objs'[o].started_at # objs[o].started_at
                => /\ objs[o].started_at = NULL
                   /\ objs[o].state = PENDING /\ objs'[o].state # PENDING
          /\ objs'[o].completed_at # objs[o].completed_at
                => /\ objs[o].completed_at = NULL
                   /\ objs[o].state \notin Terminal
                   /\ objs'[o].state \in Terminal]_vars

\* C14: when stop() has returned no job record is Running, and every job
\* whose worker stop() cancelled in the middle of it is Cancelled.
CutShort(r) ==
    /\ runs[r].calls # <<>>
    /\ runs[r].calls[Len(runs[r].calls)].outcome = "cancelled"
C14_NoRunningAfterStop ==
    lifecycle = "stopped" =>
        /\ RunningJobs = {}
        /\ \A r \in DOMAIN runs :
             CutShort(r) => objs[runs[r].job].state = CANCELLED

\* C15: once stop() has been called, no worker starts another capability
\* operation and no worker takes another id from the queue, also while stop()
\* is still awaiting the workers one after the other.
C15_NothingStartsAfterStop ==
    [][(lifecycle \in {"stopping", "stopped"}) =>
          (/\ \A w \in Workers : pc'[w] \in InJob => pc'[w] = pc[w]
           /\ Len(queue) <= Len(queue'))]_vars

\* C16: run_job can always run to its end in one step, whatever the queue
\* holds and whatever the workers are doing; it appends one new Job in state
\* Pending with null started_at, completed_at, result and error, stores it
\* under its id, puts the id on the queue once, moves no worker, and what it
\* returns is that Pending record.
C16_RunJobStoresAndReturns ==
    /\ [](\A s \in PoolSubmissions : ENABLED RunJob(s[1], s[2], s[3]))
    /\ [][(submits' # submits) =>
             LET o == Len(objs) + 1
                 returned == to_dict(objs'[o])
             IN /\ Len(objs') = o
                /\ \A n \in DOMAIN objs : objs'[n] = objs[n]
                /\ jobs'[returned.id] = o
                /\ returned.state = PENDING
                /\ returned.started_at = NULL
                /\ returned.completed_at = NULL
                /\ returned.result = NULL
                /\ returned.error = NULL
                /\ queue' = Append(queue, returned.id)
                /\ pc' = pc]_vars

\* C16 happens: run_job has queued a job after both workers had started one,
\* both workers are still inside their job, and the new record is Pending.
C16_Witness ==
    /\ \A w \in Workers : pc[w] \in InJob
    /\ queue # <<>>
    /\ objs[Len(objs)].state = PENDING
    /\ LET l == job_logs[objs[Len(objs)].id]
       IN /\ l[Len(l)].message = "Job queued"
          /\ Cardinality({i \in DOMAIN l : l[i].message = "Job started"})
                = max_concurrent

\* C17: a job that is Running reaches a terminal state even when a
\* capability operation it awaits never returns, the runner being started
\* and not stopped.
C17_RunningJobEnds ==
    \A o \in 1..MaxSubmits :
        (o \in DOMAIN objs /\ objs[o].state = RUNNING)
            ~> (o \in DOMAIN objs /\ objs[o].state \in Terminal)

\* C18: every call of AgentClient.call that returns a value returns the
\* result of the response whose id is the id of the request that call sent
\* (also after an earlier call timed out, failed in a read, or was
\* cancelled while it waited), and no response is delivered to two calls.
Delivered(i) == finished[i].how \in {"return", "RPC error"}
C18_ResponseMatchesRequest ==
    /\ \A i \in DOMAIN finished :
          finished[i].how = "return" => finished[i].id = finished[i].request
    /\ \A i, j \in DOMAIN finished :
          (/\ i # j /\ Delivered(i) /\ Delivered(j)
           /\ finished[i].stream = finished[j].stream)
          => finished[i].id # finished[j].id

\* C19: on each connection the server writes exactly one response frame for
\* every request frame of a length within the limit that it reads, before it
\* reads the next one; the i-th response carries the id of the i-th request
\* (null when the request is not parsable or not an object) and holds
\* exactly one of result and error.
IsRequestRead(e) == e.op = "readexactly" /\ e.what # NULL
IsResponseWrite(e) == e.op = "write"
IdToEcho(e) == IF e.what = "object" THEN e.id ELSE NULL
C19_OneResponsePerRequest ==
    \A k \in DOMAIN conns :
       LET io == SelectSeq(conns[k].events,
                           LAMBDA e : IsRequestRead(e) \/ IsResponseWrite(e))
       IN /\ Len(io) % 2 = 0
          /\ \A i \in 1..(Len(io) \div 2) :
                /\ IsRequestRead(io[2 * i - 1])
                /\ IsResponseWrite(io[2 * i])
                /\ io[2 * i].id = IdToEcho(io[2 * i - 1])
                /\ io[2 * i].what \in {"result", "error"}

\* C20: every reader of the framed channel, the server reading a request and
\* the client reading a response, rejects a frame whose declared length is
\* above 10 MiB without reading the declared bytes and without invoking a
\* handler, and the connection is closed; a frame of a declared length of at
\* most 10 MiB is never rejected for its size.
ServerChecksLength ==
    \A k \in DOMAIN conns :
       LET ev == conns[k].events
       IN \A i \in DOMAIN ev :
             ev[i].op = "length" =>
                IF ev[i].n > MAX_FRAME
                THEN /\ i + 1 = Len(ev)
                     /\ ev[i + 1].op = "close"
                     /\ ~conns[k].serving
                ELSE /\ i < Len(ev)
                     /\ ev[i + 1].op = "readexactly"
                     /\ ev[i + 1].n = ev[i].n
ClientChecksLength ==
    \A i \in DOMAIN finished :
       finished[i].length > MAX_FRAME =>
          /\ ~Delivered(i)
          /\ ~conns[finished[i].stream].serving
C20_OversizedFrameRejected == ServerChecksLength /\ ClientChecksLength

\* C21: a payload of k bytes, 0 <= k <= 10 MiB, written as a 4-byte
\* big-endian length prefix followed by the payload, is read back as one
\* frame with the same bytes; frames written back to back on one stream are
\* read back as the same payloads in the same order.
RECURSIVE Unread(_)
Unread(i) ==
    IF i > Len(written) THEN <<>>
    ELSE Cat(Cat(PrefixBytes(Size(written[i])), written[i]), Unread(i + 1))
C21_FramingRoundTrip ==
    /\ Len(received) <= Len(written)
    /\ received = SubSeq(written, 1, Len(received))
    /\ Len(received) < Len(written) => FrameReady
    /\ wire = Unread(Len(received) + 1)
C21_Witness ==
    /\ Len(received) = MaxFrames
    /\ \E i, j \in DOMAIN received :
          /\ i < j
          /\ Size(received[i]) = MAX_FRAME
          /\ Size(received[j]) = 0

\* C22: a request naming a method without a registered handler is answered
\* with an error response of code -32601 (not -32000, not -32603) and no
\* handler runs; a business-level failure that a registered handler returns
\* is carried in the result of a success response.
Answered(k) ==
    /\ k \in DOMAIN conns
    /\ conns[k].inbox # <<>>
    /\ Len(conns'[k].outbox) = Len(conns[k].outbox) + 1
Asked(k) == Head(conns[k].inbox).payload
Answer(k) == conns'[k].outbox[Len(conns'[k].outbox)].payload
C22_MethodNotFoundCode ==
    [][\A k \in 1..MaxConns :
         (Answered(k) /\ Handled(Head(conns[k].inbox))) =>
            /\ Asked(k).method \notin Registered =>
                  /\ Answer(k).has = "error"
                  /\ Answer(k).code = -32601
                  /\ UNCHANGED RunnerVars
            /\ (/\ Asked(k).method = "job.cancel"
                /\ Fits("job.cancel", Asked(k))
                /\ Asked(k).args.job_id \notin DOMAIN jobs) =>
                  /\ Answer(k).has = "result"
                  /\ Answer(k).value = "{success: false, error: Job not found}"
      ]_vars

\* C23: a request for job.run, job.status, job.cancel or job.logs is
\* dispatched to the job engine; a job.logs request for an existing job is
\* answered with a success response that carries the job's log entries in
\* append order, and the Panel's client can issue that request.
JobMethods == {"job.run", "job.status", "job.cancel", "job.logs"}
C23_JobMethodsDispatched ==
    [][\A k \in 1..MaxConns :
         (/\ Answered(k)
          /\ Handled(Head(conns[k].inbox))
          /\ Asked(k).method \in JobMethods
          /\ Fits(Asked(k).method, Asked(k))) =>
            /\ Asked(k).method \in Registered
            /\ Asked(k).method \in ClientJobMethods
            /\ Answer(k).has = "result"
            /\ (/\ Asked(k).method = "job.logs"
                /\ Asked(k).args.job_id \in DOMAIN jobs) =>
                  Answer(k).value = ToString(job_logs[Asked(k).args.job_id])
      ]_vars

\* C24: transport and protocol errors (unparsable payload, a request that
\* is not an object or has no string method, params that are not an object,
\* an unregistered method, an oversized frame, loss of the connection) leave
\* every job record, every job log and the queue unchanged, and a job that
\* is queued or Running still reaches a terminal state after the
\* connection that submitted it has closed.
ProtocolCodes == {-32700, -32600, -32602}
FailedOn(k) ==
    /\ k \in DOMAIN conns
    /\ conns[k].serving
    /\ \/ ~conns'[k].serving
       \/ /\ Answered(k)
          /\ \/ Answer(k).code \in ProtocolCodes
             \/ Answer(k).value = "Unknown method: " \o Asked(k).method
C24_ErrorsLeaveJobsAlone ==
    /\ [][(\E k \in 1..MaxConns : FailedOn(k)) =>
             UNCHANGED <<objs, jobs, job_logs, queue>>]_vars
    /\ ("u1" \in DOMAIN jobs)
          ~> ("u1" \in DOMAIN jobs /\ objs[jobs["u1"]].state \in Terminal)
C24_Witness ==
    /\ "u1" \in DOMAIN jobs
    /\ objs[jobs["u1"]].state = COMPLETED
    /\ \E k \in DOMAIN conns :
          /\ ~conns[k].serving
          /\ \E i, j \in DOMAIN conns[k].events :
                /\ i < j
                /\ conns[k].events[i].op = "handler"
                /\ conns[k].events[i].what = "job.run"
                /\ conns[k].events[j].op = "length"
                /\ conns[k].events[j].n > MAX_FRAME

\* ------------------------------------------------------------- the Panel
\* The jobs router of the Panel (routers/jobs.py).  All handlers share one
\* database connection whose statements run in the order they are posted, so
\* a statement takes effect at the step that posts it; a handler can be
\* overtaken by another only where it awaits.  A call of agent_client is one
\* step: the Agent acts on it, or not, and the caller learns how it ended.

\* How a call of the AgentClient ends for its caller.  Only a call that
\* returns or times out has reached the Agent's handler.
Hows == {"return", "ConnectionError", "TimeoutError", "IncompleteReadError"}
Reached(how) == how \in {"return", "TimeoutError"}

\* json.dumps and json.loads on the results a job can have
dumps(v) == "json:" \o v
loads(j) == IF j = NULL THEN NULL
            ELSE CHOOSE v \in ExecuteResults \cup {EMPTY} : dumps(v) = j

\* datetime('now') of SQLite
datetime_now == "now"

\* JobRunner.get_status through agent_client.get_job_status: the dict of the
\* job, or None
get_job_status(job_id) ==
    IF job_id \in DOMAIN jobs
    THEN LET d == to_dict(objs[jobs[job_id]])
         IN [state |-> d.state, result |-> d.result, error |-> d.error,
             started_at |-> d.started_at, completed_at |-> d.completed_at]
    ELSE NoStatus

\* The states after which _sync_job_status sets progress to 100
Done == {COMPLETED, FAILED, ROLLED_BACK, CANCELLED}

\* A row of table jobs as create_job inserts it
NewRow(type) ==
    [type |-> type, state |-> PENDING, progress |-> 0, result_json |-> NULL,
     error |-> NULL, started_at |-> NULL, completed_at |-> NULL]

\* The UPDATE of _sync_job_status
Overwrites(row, status) == [row EXCEPT !.state = status.state]
SyncedRow(row, status) ==
    [Overwrites(row, status) EXCEPT
        !.progress = IF status.state \in Done THEN 100 ELSE 0,
        !.result_json = IF Truthy(status.result)
                        THEN dumps(status.result) ELSE NULL,
        !.error = status.error,
        !.started_at = IF status.started_at # NULL
                       THEN status.started_at ELSE @,
        !.completed_at = IF status.completed_at # NULL
                         THEN status.completed_at ELSE @]

\* UPDATE jobs SET ... WHERE id = ?: no row, no change
Updated(job_id, f(_)) ==
    jobs_table' = IF job_id \in DOMAIN jobs_table
                  THEN [jobs_table EXCEPT ![job_id] = f(@)] ELSE jobs_table

\* JobResponse as get_job builds it from a row; NoBody where the answer is
\* an error or carries no job
JobResponse(row) ==
    [state |-> row.state, progress |-> row.progress,
     result |-> loads(row.result_json), error |-> row.error,
     started_at |-> row.started_at, completed_at |-> row.completed_at]

\* SELECT ... FROM job_logs WHERE job_id = ?
LogRows(job_id) == SelectSeq(job_logs_table, LAMBDA l : l.job_id = job_id)

\* str(uuid.uuid4())[:8] of create_job: an id no job of the Panel has had
NewId == "p" \o ToString(Cardinality({i \in DOMAIN audit_log :
                                         audit_log[i].action = "job.create"})
                         + 1)
PanelIds == {"p1"}
PanelTypes == {"cleanup"}

\* A handler starts on a request
Begin(r) ==
    /\ task[r].at = "idle"
    /\ requests < MaxRequests
    /\ requests' = requests + 1

\* A handler returns or raises: the answer, with the handler's locals
Reply(r, t, code, body, logs) ==
    /\ replies' = [replies EXCEPT ![r] =
                       [request |-> IF task[r].at = "idle"
                                    THEN requests + 1 ELSE task[r].request,
                        endpoint |-> t.endpoint, job_id |-> t.job_id,
                        code |-> code, body |-> body, logs |-> logs,
                        how |-> t.how, pulled |-> t.pulled]]
    /\ task' = [task EXCEPT ![r] = NoTask]
Audit(action, job_id) ==
    audit_log' = Append(audit_log, [action |-> action, job_id |-> job_id])
Locals(endpoint, job_id, at) ==
    [NoTask EXCEPT !.request = requests + 1, !.endpoint = endpoint,
                   !.job_id = job_id, !.at = at]

\* `except Exception: return` of _sync_job_status: every way the call fails
\* is an Exception
CaughtConnectionError(how) == how = "ConnectionError"
Caught(how) == how \in Hows \ {"return"}

\* get_job, and one turn of the loop of stream_job, as far as the SELECT:
\* _sync_job_status pulls the status and writes it to the row; _sync_job_logs
\* ends at once, AgentClient having no get_job_logs
GetJob(r, endpoint, job_id, how) ==
    /\ Begin(r)
    /\ LET status == IF how = "return" THEN get_job_status(job_id)
                     ELSE NoStatus
           t == [Locals(endpoint, job_id, "select")
                    EXCEPT !.how = how, !.pulled = status]
       IN /\ IF status # NoStatus
             THEN Updated(job_id, LAMBDA row : SyncedRow(row, status))
             ELSE UNCHANGED jobs_table
          /\ IF how = "return" \/ Caught(how)
             THEN task' = [task EXCEPT ![r] = t] /\ UNCHANGED replies
             ELSE Reply(r, t, 500, NoBody, <<>>)
    /\ UNCHANGED <<job_logs_table, audit_log>>
    /\ UNCHANGED <<RunnerVars, TransportVars, FramingVars, SseVars, SyncVars>>

\* ... and from the SELECT on: 404 from get_job, an empty event from stream_job
GetJobReply(r) ==
    /\ task[r].at = "select"
    /\ LET t == task[r]
       IN IF t.job_id \in DOMAIN jobs_table
          THEN Reply(r, t, 200, JobResponse(jobs_table[t.job_id]),
                     IF t.endpoint = "stream_job" THEN LogRows(t.job_id)
                     ELSE <<>>)
          ELSE Reply(r, t, IF t.endpoint = "get_job" THEN 404 ELSE 200,
                     NoBody, <<>>)
    /\ UNCHANGED <<jobs_table, job_logs_table, audit_log, requests>>
    /\ UNCHANGED <<RunnerVars, TransportVars, FramingVars, SseVars, SyncVars>>

\* get_job_logs: _sync_job_logs ends before it has called the Agent
GetJobLogs(r, job_id) ==
    /\ Begin(r)
    /\ Reply(r, Locals("get_job_logs", job_id, "select"), 200, NoBody,
             LogRows(job_id))
    /\ UNCHANGED <<jobs_table, job_logs_table, audit_log>>
    /\ UNCHANGED <<RunnerVars, TransportVars, FramingVars, SseVars, SyncVars>>

\* create_job as far as the commit of the INSERT
CreateJob(r, type) ==
    /\ Begin(r)
    /\ Cardinality({i \in DOMAIN audit_log :
                       audit_log[i].action = "job.create"}) < MaxCreates
    /\ jobs_table' = Put(jobs_table, NewId, NewRow(type))
    /\ Audit("job.create", NewId)
    /\ task' = [task EXCEPT ![r] = Locals("create_job", NewId, "run")]
    /\ UNCHANGED <<job_logs_table, replies>>
    /\ UNCHANGED <<RunnerVars, TransportVars, FramingVars, SseVars, SyncVars>>

\* agent_client.run_job, the Agent's part: config carries the Panel's job id
\* from create_job, and none from run_job, whose config is the stored one
AgentRuns(how, supplied, type) ==
    IF Reached(how)
    THEN submits < MaxPanelRuns /\ run_job(supplied, type, NULL)
    ELSE UNCHANGED RunnerVars

RunningRow(row) ==
    [row EXCEPT !.state = RUNNING, !.started_at = datetime_now]

\* ... and from agent_client.run_job on: `except Exception: pass`, and the
\* response is the job as it was inserted
CreateJobCalled(r, how) ==
    /\ task[r].at = "run"
    /\ task[r].endpoint = "create_job"
    /\ LET t == [task[r] EXCEPT !.how = how]
       IN /\ AgentRuns(how, t.job_id, "cleanup")
          /\ IF how = "return"
             THEN Updated(t.job_id, RunningRow)
             ELSE UNCHANGED jobs_table
          /\ Reply(r, t, 200, [NoBody EXCEPT !.state = PENDING], <<>>)
    /\ UNCHANGED <<job_logs_table, audit_log, requests>>
    /\ UNCHANGED <<TransportVars, FramingVars, SseVars, SyncVars>>

\* The SELECT and the check that open run_job, cancel_job and delete_job
AllowedAlways(endpoint) == {PENDING, RUNNING} \cup Done
Allowed(endpoint) ==
    CASE endpoint = "run_job" -> {PENDING}
      [] endpoint = "cancel_job" -> {PENDING, RUNNING}
      [] endpoint = "delete_job" -> Done \ {PENDING, RUNNING}
Guarded(r, endpoint, job_id) ==
    /\ Begin(r)
    /\ LET t == Locals(endpoint, job_id,
                       CASE endpoint = "run_job" -> "run"
                         [] endpoint = "cancel_job" -> "cancel"
                         [] endpoint = "delete_job" -> "delete")
       IN IF job_id \notin DOMAIN jobs_table
          THEN Reply(r, t, 404, NoBody, <<>>)
          ELSE IF jobs_table[job_id].state \notin Allowed(endpoint)
          THEN Reply(r, t, 400, NoBody, <<>>)
          ELSE task' = [task EXCEPT ![r] = t] /\ UNCHANGED replies
    /\ UNCHANGED <<jobs_table, job_logs_table, audit_log>>
    /\ UNCHANGED <<RunnerVars, TransportVars, FramingVars, SseVars, SyncVars>>

\* run_job from agent_client.run_job on
RunJobCalled(r, how) ==
    /\ task[r].at = "run"
    /\ task[r].endpoint = "run_job"
    /\ LET t == [task[r] EXCEPT !.how = how]
       IN /\ AgentRuns(how, NULL, "cleanup")
          /\ IF how = "return"
             THEN /\ Updated(t.job_id, RunningRow)
                  /\ Audit("job.run", t.job_id)
                  /\ Reply(r, t, 200, NoBody, <<>>)
             ELSE /\ UNCHANGED <<jobs_table, audit_log>>
                  /\ Reply(r, t, 500, NoBody, <<>>)
    /\ UNCHANGED <<job_logs_table, requests>>
    /\ UNCHANGED <<TransportVars, FramingVars, SseVars, SyncVars>>

CancelledRow(row) ==
    [row EXCEPT !.state = CANCELLED, !.completed_at = datetime_now]

\* cancel_job from agent_client.cancel_job on: `except Exception: pass`
CancelJobCalled(r, how) ==
    /\ task[r].at = "cancel"
    /\ LET t == [task[r] EXCEPT !.how = how]
       IN /\ IF Reached(how) THEN cancel_job(t.job_id)
             ELSE UNCHANGED RunnerVars
          /\ Updated(t.job_id, CancelledRow)
          /\ Audit("job.cancel", t.job_id)
          /\ Reply(r, t, 200, NoBody, <<>>)
    /\ UNCHANGED <<job_logs_table, requests>>
    /\ UNCHANGED <<TransportVars, FramingVars, SseVars, SyncVars>>

\* delete_job from the DELETEs on
DeleteJobDone(r) ==
    /\ task[r].at = "delete"
    /\ LET t == task[r]
       IN /\ job_logs_table' = SelectSeq(job_logs_table,
                                         LAMBDA l : l.job_id # t.job_id)
          /\ jobs_table' = [i \in DOMAIN jobs_table \ {t.job_id} |->
                               jobs_table[i]]
          /\ Audit("job.delete", t.job_id)
          /\ Reply(r, t, 200, NoBody, <<>>)
    /\ UNCHANGED requests
    /\ UNCHANGED <<RunnerVars, TransportVars, FramingVars, SseVars, SyncVars>>

\* The jobs router with the Agent's JobRunner behind it
PanelNext ==
    \/ Start
    \/ \E w \in Workers : PoolWorker(w)
    \/ \E r \in Handlers, type \in PanelTypes : CreateJob(r, type)
    \/ \E r \in Handlers, how \in Hows : CreateJobCalled(r, how)
    \/ \E r \in Handlers, e \in {"get_job", "stream_job"}, i \in PanelIds,
          how \in Hows : GetJob(r, e, i, how)
    \/ \E r \in Handlers : GetJobReply(r)
    \/ \E r \in Handlers, i \in PanelIds : GetJobLogs(r, i)
    \/ \E r \in Handlers, e \in {"run_job", "cancel_job", "delete_job"},
          i \in PanelIds : Guarded(r, e, i)
    \/ \E r \in Handlers, how \in Hows : RunJobCalled(r, how)
    \/ \E r \in Handlers, how \in Hows : CancelJobCalled(r, how)
    \/ \E r \in Handlers : DeleteJobDone(r)

PanelSpec == Init /\ [][PanelNext]_vars

\* ---------------------------------------------------- the Panel's claims
\* r answers a request at this step
Answers(r) == replies'[r].request # replies[r].request
Reads == {"get_job", "get_job_logs", "stream_job"}

\* C25: while the Agent cannot be reached (the call of the AgentClient ends in
\* a connection error, a timeout or a connection dropped mid-call), a read of
\* a job the Panel has (get job, list logs, one turn of stream job) is
\* answered 200 with the row and the log rows as they are stored, and the
\* failed status pull leaves table jobs and table job_logs as they were.
C25_ReadsSurviveUnreachableAgent ==
    [][\A r \in Handlers :
          /\ (task[r].at = "idle" /\ task'[r].request # task[r].request
              /\ task'[r].endpoint \in Reads /\ task'[r].how # "return")
             => /\ jobs_table' = jobs_table
                /\ job_logs_table' = job_logs_table
          /\ (Answers(r) /\ replies'[r].endpoint \in Reads
              /\ replies'[r].how # "return"
              /\ replies'[r].job_id \in DOMAIN jobs_table)
             => LET a == replies'[r]
                IN /\ a.code = 200
                   /\ a.endpoint # "get_job_logs"
                      => a.body = JobResponse(jobs_table[a.job_id])
                   /\ a.endpoint # "get_job"
                      => a.logs = LogRows(a.job_id)]_vars

C25_Witness ==
    \E r \in Handlers :
        /\ replies[r].endpoint = "stream_job"
        /\ replies[r].how = "TimeoutError"
        /\ replies[r].code = 200
        /\ replies[r].body.state = RUNNING

\* Nothing but reads has touched the job since it was created, and nothing
\* else is under way
OnlyReaders ==
    /\ \A i \in DOMAIN audit_log : audit_log[i].action = "job.create"
    /\ \A r \in Handlers : task[r].endpoint \in Reads \cup {NULL}

\* C26: when the status pull of a get-job read returned the Agent's record of
\* the job, the state, result and error of the answer are those the pull
\* reported, whatever other readers and streams of the job do meanwhile.
C26_ReadReturnsOwnPull ==
    [][\A r \in Handlers :
          (Answers(r) /\ replies'[r].endpoint = "get_job"
           /\ replies'[r].how = "return" /\ replies'[r].pulled # NoStatus
           /\ replies'[r].code = 200 /\ OnlyReaders)
          => LET a == replies'[r]
             IN /\ a.body.state = a.pulled.state
                /\ a.body.result = a.pulled.result
                /\ a.body.error = a.pulled.error]_vars

\* C27: once the row of a job holds a terminal state, no step (status
\* reconciliation, cancel, run) sets it back to pending or running.
C27_TerminalRowStaysTerminal ==
    [][\A i \in DOMAIN jobs_table \cap DOMAIN jobs_table' :
          jobs_table[i].state \in Done
          => jobs_table'[i].state \notin {PENDING, RUNNING}]_vars

\* The requests the router guards by the stored state
GuardedEndpoints == {"run_job", "cancel_job", "delete_job"}

\* C29: a delete goes ahead only when the state the handler read from the row
\* is terminal, a run only when it is pending, a cancel only when it is
\* pending or running; a delete that went ahead has removed the row and every
\* log row of the job; a request that is turned down (400, or 404 for a job
\* the Panel has not) changes no job row, log row or audit row and makes no
\* call to the Agent.
C29_GuardsOfRunCancelDelete ==
    [][\A r \in Handlers :
          /\ (task[r].at = "idle" /\ task'[r].at # "idle"
              /\ task'[r].endpoint \in GuardedEndpoints)
             => LET i == task'[r].job_id
                IN /\ i \in DOMAIN jobs_table
                   /\ task'[r].endpoint = "delete_job"
                      => jobs_table[i].state
                            \in {COMPLETED, FAILED, ROLLED_BACK, CANCELLED}
                   /\ task'[r].endpoint = "run_job"
                      => jobs_table[i].state = PENDING
                   /\ task'[r].endpoint = "cancel_job"
                      => jobs_table[i].state \in {PENDING, RUNNING}
          /\ (Answers(r) /\ replies'[r].endpoint = "delete_job"
              /\ replies'[r].code = 200)
             => /\ replies'[r].job_id \notin DOMAIN jobs_table'
                /\ \A n \in DOMAIN job_logs_table' :
                      job_logs_table'[n].job_id # replies'[r].job_id
          /\ (Answers(r) /\ replies'[r].endpoint \in GuardedEndpoints
              /\ replies'[r].code \in {400, 404})
             => /\ UNCHANGED <<jobs_table, job_logs_table, audit_log>>
                /\ UNCHANGED RunnerVars
                /\ replies'[r].how = NULL]_vars

C29_Witness ==
    \E r \in Handlers :
        /\ replies[r].endpoint = "delete_job"
        /\ replies[r].code = 200
        /\ replies[r].job_id \notin DOMAIN jobs_table
        /\ \E n \in DOMAIN audit_log : audit_log[n].action = "job.create"

\* C30: when the call of job.run made for a create or a run request fails
\* (the Agent cannot be reached), the request is answered with an error, and
\* the row of the job is left as it was: pending, started_at null if it was
\* so; and a row is in state running only if the Agent has accepted a
\* job.run call.
C30_UnreachableAgentCannotStart ==
    [][/\ \A r \in Handlers :
             (Answers(r) /\ replies'[r].endpoint \in {"create_job", "run_job"}
              /\ replies'[r].how \notin {NULL, "return"})
             => /\ replies'[r].code >= 400
                /\ jobs_table' = jobs_table
                /\ \A i \in DOMAIN jobs_table' :
                      jobs_table'[i].state = RUNNING => submits > 0
       /\ \A i \in DOMAIN jobs_table' :
             jobs_table'[i].state = RUNNING => submits' > 0]_vars

\* ------------------------------------------------------- the phase log
\* An entry of the log of call r that records the start of its k-th
\* operation: written after the operation before it ended and before the
\* k-th was called.  "Job started" is the one entry the code writes ahead
\* of an operation.
StartLogged(r, k) ==
    \E i \in DOMAIN runs[r].logged :
        /\ runs[r].logged[i].at = k - 1
        /\ runs[r].logged[i].tag = "start"
\* An entry that records how the k-th operation ended, written before the
\* next operation was called: the line of the phase itself, the error line
\* of an except clause, "Job completed", or "Job finished with state: ..."
EndLogged(r, k) ==
    \E i \in DOMAIN runs[r].logged :
        /\ runs[r].logged[i].at = k
        /\ runs[r].logged[i].tag
              \in {runs[r].calls[k].phase, "except", "success", "finally"}

\* C28: for every operation a call of _execute_job has called (precheck,
\* snapshot, execute, verify, rollback) the log holds an entry for its start,
\* and, once it has ended, an entry for its passing or failing that was
\* appended before the next operation was called.
C28_PhaseTransitionsLogged ==
    \A r \in DOMAIN runs :
        \A k \in DOMAIN runs[r].calls :
            /\ StartLogged(r, k)
            /\ (k < Len(runs[r].calls) \/ runs[r].done) => EndLogged(r, k)

\* ------------------------------------------------------- the SSEManager
\* services/sse.py.  No body of `async with self._lock` awaits, so the lock
\* is free whenever a method asks for it, and put on the unbounded queue
\* returns at once: each method runs from start to end in one step.
SseFrame ==
    UNCHANGED <<RunnerVars, TransportVars, FramingVars, PanelVars, SyncVars>>

\* SSEClient(client_id, user_id): no subscriptions, an empty queue
SSEClient == [subscriptions |-> {}, queue |-> <<>>]

\* set.discard
discard_all(set, x) == {}
discard(set, x) == set \ {x}

\* SSEManager.connect
Connect(x) ==
    /\ clients' = Put(clients, x, SSEClient)
    /\ UNCHANGED <<channels, broadcasts, dequeued>>
    /\ SseFrame

\* SSEManager.disconnect
Disconnect(x) ==
    /\ IF x \in DOMAIN clients
       THEN /\ clients' = [i \in DOMAIN clients \ {x} |-> clients[i]]
            /\ channels' = [c \in DOMAIN channels |->
                               IF c \in clients[x].subscriptions
                               THEN discard(channels[c], x)
                               ELSE channels[c]]
       ELSE UNCHANGED <<clients, channels>>
    /\ UNCHANGED <<broadcasts, dequeued>>
    /\ SseFrame

\* SSEManager.subscribe
Subscribe(x, c) ==
    /\ IF x \notin DOMAIN clients
       THEN UNCHANGED <<clients, channels>>
       ELSE /\ clients' = [clients EXCEPT ![x].subscriptions = @ \cup {c}]
            /\ channels' = Put(channels, c,
                               (IF c \in DOMAIN channels THEN channels[c]
                                ELSE {}) \cup {x})
    /\ UNCHANGED <<broadcasts, dequeued>>
    /\ SseFrame

\* SSEManager.unsubscribe
Unsubscribe(x, c) ==
    /\ clients' = IF x \in DOMAIN clients
                  THEN [clients EXCEPT ![x].subscriptions = discard(@, c)]
                  ELSE clients
    /\ channels' = IF c \in DOMAIN channels
                   THEN [channels EXCEPT ![c] = discard(@, x)]
                   ELSE channels
    /\ UNCHANGED <<broadcasts, dequeued>>
    /\ SseFrame

\* SSEManager.broadcast: the message stands for event, data and timestamp
Broadcast(c) ==
    /\ Len(broadcasts) < MaxBroadcasts
    /\ LET message == [n |-> Len(broadcasts) + 1, channel |-> c]
           client_ids == IF c \in DOMAIN channels THEN channels[c] ELSE {}
       IN /\ broadcasts' = Append(broadcasts, message)
          /\ clients' = [x \in DOMAIN clients |->
                            IF x \in client_ids
                            THEN [clients[x] EXCEPT
                                     !.queue = Append(@, message)]
                            ELSE clients[x]]
    /\ UNCHANGED <<channels, dequeued>>
    /\ SseFrame

\* SSEManager.event_generator: client.queue.get() of the client the manager
\* has registered under x.  A client object that connect has replaced is
\* out of the manager's reach and left out.
Dequeue(x) ==
    /\ x \in DOMAIN clients
    /\ clients[x].queue # <<>>
    /\ dequeued' = [dequeued EXCEPT ![x] = Append(@, Head(clients[x].queue))]
    /\ clients' = [clients EXCEPT ![x].queue = Tail(@)]
    /\ UNCHANGED <<channels, broadcasts>>
    /\ SseFrame

SseNext ==
    \/ \E x \in ClientIds : Connect(x)
    \/ \E x \in ClientIds : Disconnect(x)
    \/ \E x \in ClientIds, c \in ChannelNames : Subscribe(x, c)
    \/ \E x \in ClientIds, c \in ChannelNames : Unsubscribe(x, c)
    \/ \E c \in ChannelNames : Broadcast(c)
    \/ \E x \in ClientIds : Dequeue(x)

SseSpec == Init /\ [][SseNext]_vars

\* ------------------------------------------------ the SSEManager's claims
Members(c) == IF c \in DOMAIN channels THEN channels[c] ELSE {}
Subscribed(x, c) == x \in DOMAIN clients /\ c \in clients[x].subscriptions

\* C38: whatever calls of connect, subscribe, unsubscribe and disconnect were
\* made, a client id is in the member set of a channel exactly when it is a
\* registered client whose subscription set holds the channel.
C38_MembersAreSubscribers ==
    \A c \in ChannelNames, x \in ClientIds :
        x \in Members(c) <=> Subscribed(x, c)

\* What the manager holds of observer y: its client and its memberships
Observer(y) ==
    [client |-> IF y \in DOMAIN clients THEN <<clients[y]>> ELSE <<>>,
     member |-> {c \in ChannelNames : y \in Members(c)}]

\* C31: a step that is not a broadcast (a connect, subscribe, unsubscribe,
\* disconnect or queue read of one observer x) leaves the registration, the
\* subscription set, the queue and the channel memberships of every other
\* observer as they were; and every broadcast, also after other observers
\* have left, appends its message to the queue of each observer subscribed
\* to its channel.
C31_ObserversIndependent ==
    [][IF broadcasts' = broadcasts
       THEN \E x \in ClientIds :
               \A y \in ClientIds \ {x} : Observer(y)' = Observer(y)
       ELSE LET m == broadcasts'[Len(broadcasts')]
            IN \A y \in ClientIds :
                  Subscribed(y, m.channel)
                  => /\ y \in DOMAIN clients'
                     /\ clients'[y].queue = Append(clients[y].queue, m)]_vars

\* x got the first message and has left; y, subscribed to the same channel,
\* got the second one as well
C31_Witness ==
    \E x \in ClientIds : \E y \in ClientIds \ {x} :
        /\ Len(broadcasts) = 2
        /\ broadcasts[1].channel = broadcasts[2].channel
        /\ x \notin DOMAIN clients
        /\ dequeued[x] = <<broadcasts[1]>>
        /\ y \in DOMAIN clients
        /\ dequeued[y] \o clients[y].queue = broadcasts

\* The messages of a queue are in the order they were broadcast
InBroadcastOrder(q) == \A i, j \in DOMAIN q : i < j => q[i].n < q[j].n

\* C39: a broadcast appends its message, once, to the queue of each client
\* that is registered and subscribed to its channel, leaves every other
\* queue as it was and registers nobody, so that a client that has
\* disconnected gets nothing; and each client dequeues the messages in the
\* order they were broadcast.
C39_BroadcastReachesSubscribersOnly ==
    [][/\ broadcasts' # broadcasts
          => LET m == broadcasts'[Len(broadcasts')]
             IN /\ DOMAIN clients' = DOMAIN clients
                /\ \A y \in DOMAIN clients :
                      clients'[y].queue =
                         IF Subscribed(y, m.channel)
                         THEN Append(clients[y].queue, m)
                         ELSE clients[y].queue
       /\ \A y \in ClientIds :
             InBroadcastOrder(dequeued'[y]
                              \o IF y \in DOMAIN clients'
                                 THEN clients'[y].queue ELSE <<>>)]_vars

\* ----------------------------------------------------------- rollback
\* C34: in a call of _execute_job, rollback is called only right after verify
\* returned a report that did not pass, only with a non-empty snapshot that
\* the snapshot operation of the same call returned, and only when every
\* operation before it returned in time: never after a precheck, snapshot or
\* execute that failed or timed out, nor after a verify that passed.
C34_RollbackOnlyAfterFailedVerify ==
    \A r \in DOMAIN runs :
        \A k \in CallsOf(r, "rollback") :
            LET c == runs[r].calls
            IN /\ k > 1
               /\ c[k - 1].phase = "verify"
               /\ NotPassed(c[k - 1])
               /\ \A i \in 1..(k - 1) : Returned(c[i])
               /\ \E i \in CallsOf(r, "snapshot") :
                     /\ i < k
                     /\ c[i].value = c[k].arg
                     /\ Truthy(c[k].arg)
               /\ \A i \in CallsOf(r, "precheck") : c[i].report.passed

C34_Witness ==
    \E r \in DOMAIN runs :
        /\ runs[r].done
        /\ \E k \in CallsOf(r, "rollback") :
              /\ Returned(runs[r].calls[k])
              /\ runs[r].calls[k].arg = "snap"

\* --------------------------------------------- cancelled while pending
\* C35: a job record that was cancelled before any worker took it (it is
\* Cancelled and no call of _execute_job was made for it) is never taken: no
\* step marks it Running or begins a call of _execute_job for it.
C35_CancelledPendingNeverRuns ==
    [][\A o \in DOMAIN objs :
          (objs[o].state = CANCELLED
           /\ \A r \in DOMAIN runs : runs[r].job # o)
          => /\ objs'[o].state # RUNNING
             /\ \A r \in DOMAIN runs' : runs'[r].job # o]_vars

\* ------------------------------------------ the Panel's jobs on the Agent
\* C36: when a job.run call made by create_job or run_job for a job of the
\* Panel reaches the Agent, the job record the Agent creates is registered
\* under the Panel's id of that job, so that job.status and job.cancel for
\* that id find it.
C36_StartedUnderPanelId ==
    [][\A r \in Handlers :
          (Answers(r) /\ replies'[r].endpoint \in {"create_job", "run_job"}
           /\ submits' = submits + 1)
          => LET i == replies'[r].job_id
             IN /\ i \in DOMAIN jobs'
                /\ jobs'[i] = Len(objs')
                /\ objs'[Len(objs')].id = i]_vars

\* C37: the one job of the Panel is started on the Agent at most once: at
\* most one job.run call has reached the Agent, and at most one run request
\* was answered that the job was started.
C37_StartedAtMostOnce ==
    /\ submits <= 1
    /\ Cardinality({r \in Handlers : /\ replies[r].endpoint = "run_job"
                                     /\ replies[r].code = 200}) <= 1

\* ------------------------------------------- the AgentClient after a failure
\* The call that ends at this step, if one does
EndsNow == Len(finished') = Len(finished) + 1
Last == finished'[Len(finished')]
\* The connections on which a call has failed so far
FailedOnStream ==
    {finished[i].stream : i \in {j \in DOMAIN finished :
        finished[j].how \in {"TimeoutError", "IncompleteReadError"}}}

\* C40: a call that ends in a timeout or an incomplete read leaves the client
\* marked disconnected; a request is sent only on a connection on which no
\* call has failed, and by a client that was marked disconnected only on a
\* connection opened in the same step; a call that cannot connect ends in a
\* connection error, has sent nothing and has taken no request id.
C40_FreshConnectionAfterFailure ==
    [][/\ (EndsNow /\ Last.how \in {"TimeoutError", "IncompleteReadError"})
          => ~connected'
       /\ request_id' # request_id
          => /\ stream' \notin FailedOnStream
             /\ ~connected => /\ Len(conns') = Len(conns) + 1
                              /\ stream' = Len(conns')
                              /\ conns'[stream'].events = <<>>
       /\ (EndsNow /\ Last.how = "ConnectionError")
          => /\ request_id' = request_id
             /\ conns' = conns
             /\ Last.request = NULL]_vars

\* A call timed out on the first connection and a later call was answered
\* on the second
C40_Witness ==
    \E i, j \in DOMAIN finished :
        /\ i < j
        /\ finished[i].how = "TimeoutError"
        /\ finished[i].stream = 1
        /\ finished[j].how = "return"
        /\ finished[j].stream = 2

\* ------------------------------------------------ the reconciliation of logs
\* _sync_job_logs of the jobs router, with the pull it asks of the Agent. The
\* table job_logs is reached over one shared connection: a statement takes
\* effect when it is posted, and a reader is suspended at each of them.
SyncFrame ==
    /\ UNCHANGED <<running, lifecycle, stop_i, workers, objs, jobs,
                   running_jobs, queue, pc, run, runs, submits>>
    /\ UNCHANGED <<jobs_table, audit_log, task, replies, requests>>
    /\ UNCHANGED <<TransportVars, FramingVars, SseVars>>

\* The Agent's clock moves on
Tick ==
    /\ clock < MaxClock
    /\ clock' = clock + 1
    /\ UNCHANGED <<job_logs, job_logs_table, sync>>
    /\ SyncFrame

\* JobRunner._append_log, the timestamp read from the clock
LogEntryAt(level, message, now) ==
    [level |-> level, message |-> message, created_at |-> now]
AppendLog(job_id) ==
    LET n == IF job_id \in DOMAIN job_logs THEN Len(job_logs[job_id]) ELSE 0
    IN /\ n < MaxLogs
       /\ job_logs' = append_logs(job_logs, job_id,
                          <<LogEntryAt("info", "line " \o ToString(n + 1),
                                       clock)>>)
       /\ UNCHANGED <<clock, job_logs_table, sync>>
       /\ SyncFrame

\* The pull of job.logs: what the Agent holds for the job, in append order
get_job_logs(job_id) ==
    IF job_id \in DOMAIN job_logs THEN job_logs[job_id] ELSE <<>>

\* Lines 63-69: the pull; a failed call and an empty list end the function
SyncCall(r, job_id, how) ==
    /\ sync[r].at = "idle"
    /\ LET logs == IF how = "return" THEN get_job_logs(job_id) ELSE <<>>
       IN sync' = [sync EXCEPT ![r] =
                      IF logs = <<>> THEN NoSync
                      ELSE [NoSync EXCEPT !.at = "select", !.job_id = job_id,
                                          !.logs = logs]]
    /\ UNCHANGED <<clock, job_logs, job_logs_table>>
    /\ SyncFrame

\* Lines 71-83: SELECT created_at ... ORDER BY created_at DESC LIMIT 1, and
\* the entries that are kept
LogRowsOf(job_id) == SelectSeq(job_logs_table, LAMBDA l : l.job_id = job_id)
Kept(entry, last_ts) == ~(entry.created_at <= last_ts)
SyncSelect(r) ==
    /\ sync[r].at = "select"
    /\ LET rows == LogRowsOf(sync[r].job_id)
           last_ts == CHOOSE t \in {rows[k].created_at : k \in DOMAIN rows} :
                          \A k \in DOMAIN rows : rows[k].created_at <= t
           new_logs == IF rows = <<>> THEN sync[r].logs
                       ELSE SelectSeq(sync[r].logs,
                                      LAMBDA entry : Kept(entry, last_ts))
       IN sync' = [sync EXCEPT ![r].at = "insert", ![r].new_logs = new_logs]
    /\ UNCHANGED <<clock, job_logs, job_logs_table>>
    /\ SyncFrame

\* Lines 85-91: one INSERT per kept entry, then the end of the function
SyncInsert(r) ==
    /\ sync[r].at = "insert"
    /\ IF sync[r].new_logs = <<>>
       THEN /\ sync' = [sync EXCEPT ![r] = NoSync]
            /\ UNCHANGED job_logs_table
       ELSE LET entry == Head(sync[r].new_logs)
            IN /\ job_logs_table' =
                      Append(job_logs_table,
                             [job_id |-> sync[r].job_id, level |-> entry.level,
                              message |-> entry.message,
                              created_at |-> entry.created_at])
               /\ sync' = [sync EXCEPT ![r].new_logs = Tail(@)]
    /\ UNCHANGED <<clock, job_logs>>
    /\ SyncFrame

LogSyncNext ==
    \/ Tick
    \/ \E job_id \in PanelIds : AppendLog(job_id)
    \/ \E r \in Handlers, job_id \in PanelIds, how \in Hows :
           SyncCall(r, job_id, how)
    \/ \E r \in Handlers : SyncSelect(r)
    \/ \E r \in Handlers : SyncInsert(r)

LogSyncSpec == Init /\ [][LogSyncNext]_vars

\* C32: whatever the interleaving of the readers and streams that reconcile
\* one job, no log entry of the Agent is stored twice in the table job_logs.
C32_LogEntryStoredAtMostOnce ==
    \A i, j \in DOMAIN job_logs_table :
        (/\ job_logs_table[i].job_id = job_logs_table[j].job_id
         /\ job_logs_table[i].message = job_logs_table[j].message
         /\ job_logs_table[i].created_at = job_logs_table[j].created_at)
        => i = j

\* The entry is the k-th row
StoredAt(entry, rows, k) ==
    /\ rows[k].level = entry.level
    /\ rows[k].message = entry.message
    /\ rows[k].created_at = entry.created_at

\* C33: when a reconciliation that reached the Agent ends and no other is
\* under way, every log entry the Agent held for the job when it was asked
\* is in the Panel's table, in the Agent's append order, an entry with the
\* timestamp of the last stored entry included.
C33_AgentLogsReachPanel ==
    [][\A r \in Handlers :
          (/\ sync[r].at = "insert" /\ sync'[r].at = "idle"
           /\ \A q \in Handlers \ {r} : sync[q].at = "idle")
          => LET logs == sync[r].logs
                 rows == LogRowsOf(sync[r].job_id)
             IN /\ \A i \in DOMAIN logs :
                       \E k \in DOMAIN rows : StoredAt(logs[i], rows, k)
                /\ \A i, j \in DOMAIN logs :
                       i < j => \E k, l \in DOMAIN rows :
                                   /\ k < l
                                   /\ StoredAt(logs[i], rows, k)
                                   /\ StoredAt(logs[j], rows, l)]_vars


====
